---------------------------- MODULE Spec2Model ----------------------------
(***************************************************************************)
(* terminal-ai: the command-trust and turn-orchestration pipeline.         *)
(*                                                                         *)
(*   src/command_config.py   CommandConfig (trust store, file-backed)      *)
(*   src/ai_cli.py           SessionManager, AICLI (classification,        *)
(*                           escalation prompt, execution, dispatch)       *)
(*   src/gui/command_manager.py   the GUI panel's store operations         *)
(*                                                                         *)
(* Text is a sequence of one-character strings, so that strip(), split()   *)
(* and the shell's reading of a line are computed, not assumed.            *)
(***************************************************************************)
EXTENDS Integers, Sequences, FiniteSets, TLC

(***************************************************************************)
(* Bounds of the exploration.                                              *)
(***************************************************************************)
\* number of process starts explored (a CLI invocation runs at most one
\* turn, a GUI session one store operation)
MaxInvocations == 3
\* the eviction scenario: number of distinct names approved, and number of
\* names trusted at a time
MaxNames == 102
MaxTrusted == 3
\* the two-process scenario: history events appended in all
MaxApprovals == 3
\* the session store alone: add_message calls made in all
MaxLog == 11
\* the terminal scenario: process starts, fragments per stream, and
\* timestamps handed out
MaxRuns == 1
MaxFragments == 2
MaxStamps == 3
MaxHistoryLines == 12
MaxOtherLines == 1
MaxRequests == 2

(***************************************************************************)
(* Program constants.                                                      *)
(***************************************************************************)
\* command_config.py:76-77  len(command_history) > 100 -> [-100:]
HistoryCap == 100
\* ai_cli.py:60  get_history(max_turns = 10)
DefaultMaxTurns == 10
\* ai_cli.py:301  len(piped_input.strip()) > 10
PipedMinLen == 10
\* context.py:85  if len(commands) >= 10: break
HistoryLimit == 10
\* gui/api_tester.py:440  data["history"][:100]
TesterHistoryCap == 100

(***************************************************************************)
(* Text: str.strip(), str.split(), first token.                            *)
(***************************************************************************)
\* characters str.strip()/str.split() treat as whitespace
Whitespace == {" ", "\t", "\n"}

RECURSIVE LStrip(_)
LStrip(s) ==
    IF s = <<>> THEN <<>>
    ELSE IF Head(s) \in Whitespace THEN LStrip(Tail(s)) ELSE s

RECURSIVE RStrip(_)
RStrip(s) ==
    IF s = <<>> THEN <<>>
    ELSE IF s[Len(s)] \in Whitespace THEN RStrip(SubSeq(s, 1, Len(s) - 1))
    ELSE s

\* str.strip()
Strip(s) == RStrip(LStrip(s))

RECURSIVE SplitFrom(_, _, _, _)
SplitFrom(s, i, cur, acc) ==
    IF i > Len(s)
    THEN IF cur = <<>> THEN acc ELSE Append(acc, cur)
    ELSE IF s[i] \in Whitespace
         THEN SplitFrom(s, i + 1, <<>>,
                        IF cur = <<>> THEN acc ELSE Append(acc, cur))
         ELSE SplitFrom(s, i + 1, Append(cur, s[i]), acc)

\* str.split() with no separator: runs of whitespace separate the words
Split(s) == SplitFrom(s, 1, <<>>, <<>>)

\* parts = command.strip().split()
Parts(command) == Split(Strip(command))

(***************************************************************************)
(* Ordering of strings, for sorted(list(set)).                             *)
(***************************************************************************)
CodePoints == {
    <<"\t", 9>>, <<"\n", 10>>,
    <<" ", 32>>, <<"-", 45>>, <<"/", 47>>, <<";", 59>>, <<"=", 61>>,
    <<"0", 48>>, <<"1", 49>>, <<"2", 50>>, <<"3", 51>>, <<"4", 52>>,
    <<"5", 53>>, <<"6", 54>>, <<"7", 55>>, <<"8", 56>>, <<"9", 57>>,
    <<"a", 97>>, <<"b", 98>>, <<"c", 99>>, <<"d", 100>>, <<"e", 101>>,
    <<"f", 102>>, <<"g", 103>>, <<"h", 104>>, <<"i", 105>>, <<"j", 106>>,
    <<"k", 107>>, <<"l", 108>>, <<"m", 109>>, <<"n", 110>>, <<"o", 111>>,
    <<"p", 112>>, <<"q", 113>>, <<"r", 114>>, <<"s", 115>>, <<"t", 116>>,
    <<"u", 117>>, <<"v", 118>>, <<"w", 119>>, <<"x", 120>>, <<"y", 121>>,
    <<"z", 122>> }

CodePoint ==
    [c \in {p[1] : p \in CodePoints} |->
        (CHOOSE p \in CodePoints : p[1] = c)[2]]

\* ord(c)
Ord(c) == CodePoint[c]

RECURSIVE StrLess(_, _)
StrLess(a, b) ==
    IF b = <<>> THEN FALSE
    ELSE IF a = <<>> THEN TRUE
    ELSE IF Head(a) = Head(b) THEN StrLess(Tail(a), Tail(b))
    ELSE Ord(Head(a)) < Ord(Head(b))

RECURSIVE Sorted(_)
Sorted(S) ==
    IF S = {} THEN <<>>
    ELSE LET m == CHOOSE x \in S : \A y \in S \ {x} : StrLess(x, y)
         IN  <<m>> \o Sorted(S \ {m})

Range(q) == {q[i] : i \in DOMAIN q}


(***************************************************************************)
(* State.                                                                  *)
(***************************************************************************)
VARIABLES
    \* CommandConfig of the running process (command_config.py:22-23)
    trusted_commands,   \* Set[str]
    command_history,    \* List[Dict]
    \* .trusted_commands.json as load() reads it (command_config.py:28-33)
    trust_file,
    \* SessionManager.history and .session_history.json (ai_cli.py:29, 34-38)
    session_history,
    session_file,
    \* datetime.now(): a tick per reading
    now,
    \* position of the CLI process inside run()/_single_mode
    pc,
    \* the turn in progress or last completed: message, save_to_session,
    \* the results of the calls made so far
    turn,
    \* the list handed to client.chat_with_messages in this turn
    messages,
    \* observers: every event add_trusted_command appended, in order;
    \* the last store calls; names approved with 'a' and not revoked since
    approval_log,
    calls,
    always_approved,
    \* process starts so far
    invocations,
    \* the CommandConfig of a GUI process running beside the CLI
    \* (gui/command_manager.py:23 imports the module's instance)
    gui_config,
    \* the last SessionManager calls made on the session store alone
    session_call,
    \* the Config object and the three sources it was built from
    \* (config.py:69-114, 142)
    config,
    \* the process's terminal: what was waiting on standard input when it
    \* started, the fragments print() wrote, the signal delivered
    terminal,
    \* the shell history file ContextCollector reads, what fails around
    \* it, and the text the last collect() returned (context.py:19-95)
    collector,
    \* APITester: the request in flight, its thread, the history and the
    \* statistics it records into (gui/api_tester.py)
    tester,
    \* ConfigManager.configs and .default_config (gui/config_manager.py)
    manager

vars == <<trusted_commands, command_history, trust_file, session_history,
          session_file, now, pc, turn, messages, approval_log, calls,
          always_approved, invocations, gui_config, session_call, config,
          terminal, collector, tester, manager>>

store_vars == <<trusted_commands, command_history, trust_file>>
session_vars == <<session_history, session_file>>
turn_vars == <<pc, turn, messages>>
\* the context collector, the GUI's API tester and its configuration
\* manager
tool_vars == <<collector, tester, manager>>

side_vars == <<gui_config, session_call, config, terminal, tool_vars>>

(***************************************************************************)
(* CommandConfig (src/command_config.py).  A store value st is the record  *)
(* of the process's set and list, the file, and the clock.                 *)
(***************************************************************************)
\* what a file on disk can hold: a JSON object (what save() writes), JSON
\* of another type, text that is not JSON, bytes that are not UTF-8, or a
\* file that cannot be opened for reading
FileShapes == {"object", "list", "invalid_json", "not_utf8", "unreadable"}

\* json.load() returned something without .get (AttributeError), or the
\* decoder raised UnicodeDecodeError: neither is caught at lines 34 / 39
load_raises(file) == file.exists /\ file.shape \in {"list", "not_utf8"}

\* the try block ran to its end
load_reads(file) == file.exists /\ file.shape = "object"

NoFile ==
    [exists |-> FALSE, shape |-> "none", trusted_commands |-> <<>>,
     command_history |-> <<>>]

StoreState ==
    [trusted_commands |-> trusted_commands,
     command_history  |-> command_history,
     file             |-> trust_file,
     now              |-> now]

\* load() in __init__: set(data["trusted_commands"]),
\* data["command_history"]; a missing file, and a file the except clause
\* covers, leave the defaults of __init__
load(st) ==
    IF load_reads(st.file)
    THEN [st EXCEPT !.trusted_commands = Range(st.file.trusted_commands),
                    !.command_history  = st.file.command_history]
    ELSE [st EXCEPT !.trusted_commands = {},
                    !.command_history  = <<>>]

\* save(): sorted(list(trusted_commands)), command_history.  last_updated
\* is written but never read back by load(), and is left out.
save(st) ==
    [st EXCEPT !.file = [exists           |-> TRUE,
                         shape            |-> "object",
                         trusted_commands |-> Sorted(st.trusted_commands),
                         command_history  |-> st.command_history]]

is_trusted(st, command) ==
    LET parts == Parts(command)
    IN  IF parts = <<>> THEN FALSE
        ELSE parts[1] \in st.trusted_commands

\* the CommandApprovalEvent appended at command_config.py:68-73
Event(cmd, command, reason, t) ==
    [command |-> cmd, full_command |-> command, reason |-> reason,
     added_at |-> t]

\* the slice q[-n:] for n >= 0 (self.command_history[-100:],
\* self.history[-max_turns * 2:]); -0 is 0, and q[0:] is all of q
LastN(q, n) ==
    IF n = 0 THEN q
    ELSE IF Len(q) > n THEN SubSeq(q, Len(q) - n + 1, Len(q)) ELSE q

\* faulty variant: the cap keeps the oldest entries
add_keep_oldest(st, command, reason) ==
    LET parts == Parts(command)
    IN  IF parts = <<>> THEN st
        ELSE LET cmd == parts[1]
             IN  IF cmd \notin st.trusted_commands
                 THEN LET h == Append(st.command_history,
                                      Event(cmd, command, reason, st.now))
                      IN  save([st EXCEPT
                            !.trusted_commands = @ \cup {cmd},
                            !.command_history =
                                IF Len(h) > HistoryCap
                                THEN SubSeq(h, 1, HistoryCap) ELSE h,
                            !.now = @ + 1])
                 ELSE st

\* faulty variant: no membership test before the append
add_no_membership_test(st, command, reason) ==
    LET parts == Parts(command)
    IN  IF parts = <<>> THEN st
        ELSE LET cmd == parts[1]
                 h == Append(st.command_history,
                             Event(cmd, command, reason, st.now))
             IN  save([st EXCEPT
                        !.trusted_commands = @ \cup {cmd},
                        !.command_history = LastN(h, HistoryCap),
                        !.now = @ + 1])

\* faulty variant: the name is recorded in the history but not added to the set
add_history_only(st, command, reason) ==
    LET parts == Parts(command)
    IN  IF parts = <<>> THEN st
        ELSE LET cmd == parts[1]
                 h == Append(st.command_history,
                             Event(cmd, command, reason, st.now))
             IN  IF cmd \notin st.trusted_commands
                 THEN save([st EXCEPT
                        !.command_history = LastN(h, HistoryCap),
                        !.now = @ + 1])
                 ELSE st

add_trusted_command(st, command, reason) ==
    LET parts == Parts(command)
    IN  IF parts = <<>> THEN st
        ELSE LET cmd == parts[1]
             IN  IF cmd \notin st.trusted_commands
                 THEN LET h == Append(st.command_history,
                                      Event(cmd, command, reason, st.now))
                      IN  save([st EXCEPT
                            !.trusted_commands = @ \cup {cmd},
                            !.command_history =
                                IF Len(h) > HistoryCap
                                THEN LastN(h, HistoryCap) ELSE h,
                            !.now = @ + 1])
                 ELSE st

\* faulty variant: the events of the name leave the history with it
remove_with_its_events(st, command) ==
    LET parts == Parts(command)
    IN  IF parts = <<>> THEN st
        ELSE LET cmd == parts[1]
             IN  IF cmd \in st.trusted_commands
                 THEN save([st EXCEPT
                        !.trusted_commands = @ \ {cmd},
                        !.command_history =
                            SelectSeq(@, LAMBDA e : e.command # cmd)])
                 ELSE st

\* faulty variant: the name leaves the set in memory only
remove_without_save(st, command) ==
    LET parts == Parts(command)
    IN  IF parts = <<>> THEN st
        ELSE LET cmd == parts[1]
             IN  IF cmd \in st.trusted_commands
                 THEN [st EXCEPT !.trusted_commands = @ \ {cmd}]
                 ELSE st

remove_trusted_command(st, command) ==
    LET parts == Parts(command)
    IN  IF parts = <<>> THEN st
        ELSE LET cmd == parts[1]
             IN  IF cmd \in st.trusted_commands
                 THEN save([st EXCEPT !.trusted_commands = @ \ {cmd}])
                 ELSE st

get_trusted_commands(st) == Sorted(st.trusted_commands)

get_command_history(st) == st.command_history

clear_trusted_commands(st) == save([st EXCEPT !.trusted_commands = {}])


(***************************************************************************)
(* SessionManager (src/ai_cli.py:19-77).  A session value ss is the record *)
(* of the process's history list, the file, and the clock.                 *)
(***************************************************************************)
NoSessionFile == [exists |-> FALSE, shape |-> "none", history |-> <<>>]

SessionState ==
    [history |-> session_history, file |-> session_file, now |-> now]

load_session(ss) ==
    IF load_reads(ss.file)
    THEN [ss EXCEPT !.history = ss.file.history]
    ELSE [ss EXCEPT !.history = <<>>]

\* faulty variant: the timestamps are not written
save_without_timestamp(ss) ==
    [ss EXCEPT !.file =
        [exists |-> TRUE, shape |-> "object",
         history |-> [i \in 1..Len(ss.history) |->
                        [role |-> ss.history[i].role,
                         content |-> ss.history[i].content]]]]

save_session(ss) ==
    [ss EXCEPT !.file = [exists |-> TRUE, shape |-> "object",
                         history |-> ss.history]]

\* faulty variant: the turn is appended in memory and not written
add_message_unsaved(ss, role, content) ==
    [ss EXCEPT
        !.history = Append(@, [role |-> role, content |-> content,
                               timestamp |-> ss.now]),
        !.now = @ + 1]

\* faulty variant: the new turn takes the place of the last one
add_message_over_last(ss, role, content) ==
    LET turn_ == [role |-> role, content |-> content, timestamp |-> ss.now]
    IN  save_session([ss EXCEPT
            !.history = IF @ = <<>> THEN <<turn_>>
                        ELSE [@ EXCEPT ![Len(@)] = turn_],
            !.now = @ + 1])

\* faulty variant: the turn is stored as a system message
add_message_as_system(ss, role, content) ==
    save_session([ss EXCEPT
        !.history = Append(@, [role |-> "system", content |-> content,
                               timestamp |-> ss.now]),
        !.now = @ + 1])

add_message(ss, role, content) ==
    save_session([ss EXCEPT
        !.history = Append(@, [role |-> role, content |-> content,
                               timestamp |-> ss.now]),
        !.now = @ + 1])

get_history(ss, max_turns) ==
    IF ss.history # <<>> THEN LastN(ss.history, max_turns * 2) ELSE <<>>

\* faulty variant: the list in memory is emptied, the file is left
clear_memory_only(ss) == [ss EXCEPT !.history = <<>>]

clear_history(ss) == save_session([ss EXCEPT !.history = <<>>])

get_context_messages(ss) ==
    LET h == get_history(ss, DefaultMaxTurns)
    IN  [i \in 1..Len(h) |-> [role |-> h[i].role, content |-> h[i].content]]

(***************************************************************************)
(* The host shell: what  bash -c <script>  is asked to run.  A script is   *)
(* a list of simple commands separated by ';'; an empty command before a   *)
(* ';' is a syntax error and then nothing runs.                            *)
(***************************************************************************)
RECURSIVE SplitOn(_, _, _, _)
SplitOn(s, sep, cur, acc) ==
    IF s = <<>> THEN Append(acc, cur)
    ELSE IF Head(s) = sep THEN SplitOn(Tail(s), sep, <<>>, Append(acc, cur))
    ELSE SplitOn(Tail(s), sep, Append(cur, Head(s)), acc)

ShellSegments(script) ==
    LET segs == SplitOn(script, ";", <<>>, <<>>)
    IN  [i \in 1..Len(segs) |-> Split(segs[i])]

ShellSyntaxError(script) ==
    LET w == ShellSegments(script)
    IN  \E i \in 1..(Len(w) - 1) : w[i] = <<>>

\* the simple commands (argv lists) the shell runs for the script, in order
ShellCommands(script) ==
    LET w == ShellSegments(script)
    IN  IF ShellSyntaxError(script) THEN <<>>
        ELSE IF w[Len(w)] = <<>> THEN SubSeq(w, 1, Len(w) - 1)
        ELSE w

(***************************************************************************)
(* AICLI (src/ai_cli.py:180-543).                                          *)
(***************************************************************************)
SAFE_COMMANDS == {
    <<"l","s">>, <<"p","w","d">>, <<"c","d">>, <<"c","a","t">>,
    <<"h","e","a","d">>, <<"t","a","i","l">>, <<"g","r","e","p">>,
    <<"f","i","n","d">>, <<"w","h","i","c","h">>, <<"w","h","e","r","e">>,
    <<"u","n","a","m","e">>, <<"d","f">>, <<"d","u">>, <<"p","s">>,
    <<"t","o","p">>, <<"f","r","e","e">>, <<"e","c","h","o">>,
    <<"d","a","t","e">>, <<"w","h","o","a","m","i">>,
    <<"h","o","s","t","n","a","m","e">>, <<"f","i","l","e">>, <<"w","c">>,
    <<"s","o","r","t">>, <<"u","n","i","q">>, <<"c","u","t">>,
    <<"a","w","k">>, <<"s","e","d">>, <<"t","r">>,
    <<"b","a","s","e","6","4">>, <<"m","d","5","s","u","m">>,
    <<"s","h","a","1","s","u","m">>, <<"s","h","a","2","5","6","s","u","m">>,
    <<"s","t","a","t">>, <<"i","d">>, <<"e","n","v">>,
    <<"p","r","i","n","t","e","n","v">>, <<"h","i","s","t","o","r","y">>,
    <<"j","o","b","s">>, <<"b","g">>, <<"f","g">>, <<"k","i","l","l">>,
    <<"k","i","l","l","a","l","l">>, <<"p","k","i","l","l">>,
    <<"p","g","r","e","p">>, <<"p","i","d","o","f">> }

\* faulty variant: the built-in list is consulted only for untrusted names
\* of an empty store, i.e. the trust store decides alone
is_safe_trust_store_only(st, command) ==
    LET parts == Parts(command)
    IN  IF parts = <<>> THEN FALSE ELSE is_trusted(st, command)

_is_safe_command(st, command) ==
    LET parts == Parts(command)
    IN  IF parts = <<>> THEN FALSE
        ELSE LET cmd == parts[1]
             IN  IF cmd \in SAFE_COMMANDS THEN TRUE
                 ELSE IF is_trusted(st, command) THEN TRUE
                 ELSE FALSE

\* f'type {cmd}'
type_script(cmd) == <<"t", "y", "p", "e", " ">> \o cmd

\* what subprocess.run(['bash', '-c', ...]) can come back with
ProbeOutcomes == {"exit0", "nonzero", "timeout", "raise"}

\* faulty variant: an exception of the probe counts as "exists"
potential_on_exception(outcome) == outcome \in {"exit0", "timeout", "raise"}

\* _is_potential_command: returncode == 0; any exception -> False
_is_potential_command(outcome) == outcome = "exit0"

\* str.lower() on the letters an answer is compared with
Lower(s) ==
    [i \in 1..Len(s) |->
        CASE s[i] = "Y" -> "y"
          [] s[i] = "A" -> "a"
          [] s[i] = "N" -> "n"
          [] OTHER -> s[i]]

\* reasons passed to add_trusted_command (ai_cli.py:240,
\* gui/command_manager.py:325)
ReasonCLI == "user-added"
ReasonGUI == "gui-added"

\* the ways subprocess.run(['bash', '-c', command], capture_output=True,
\* text=True, timeout=10) ends: the shell exits with status 0 or another
\* status and its output is UTF-8 text; the budget runs out; the shell
\* cannot be started; the shell exits with status 0 and its output is not
\* UTF-8 text, so that decoding it raises UnicodeDecodeError
ExecOutcomes == {"exit0", "nonzero", "timeout", "error", "undecodable"}

\* the exit status of the shell in each of them
returncode(outcome) ==
    CASE outcome \in {"exit0", "undecodable"} -> "0"
      [] outcome = "nonzero"                  -> "nonzero"
      [] OTHER                                -> "none"

\* faulty variant: the timeout has no clause of its own
execute_without_timeout_clause(outcome) ==
    CASE outcome = "exit0"   -> [success |-> TRUE,  output |-> <<"stdout+stderr">>]
      [] outcome = "nonzero" -> [success |-> FALSE, output |-> <<"stdout+stderr">>]
      [] OTHER               -> [success |-> FALSE, output |-> <<"command error: e">>]

\* _execute_command: (success, output); TimeoutExpired has its clause,
\* every other exception (spawn failure, UnicodeDecodeError) the general one
_execute_command(outcome) ==
    CASE outcome = "exit0"   -> [success |-> TRUE,  output |-> <<"stdout+stderr">>]
      [] outcome = "nonzero" -> [success |-> FALSE, output |-> <<"stdout+stderr">>]
      [] outcome = "timeout" -> [success |-> FALSE, output |-> <<"command timed out">>]
      [] outcome \in {"error", "undecodable"}
                             -> [success |-> FALSE, output |-> <<"command error: e">>]

\* _format_command_context: the three labelled sections
_format_command_context(command, success, output) ==
    <<"## command\n">> \o command \o <<"\n\n## output\n">> \o output
      \o <<"\n\n## status\n", IF success THEN "succeeded" ELSE "failed", "\n">>

\* ContextCollector.collect(): the ambient sections, then the piped input
collect(piped_input) ==
    <<"## cwd", "## files", "## shell history">>
      \o (IF piped_input # <<>>
          THEN <<"## piped input\n">> \o piped_input \o <<"\n">>
          ELSE <<>>)


(***************************************************************************)
(* Inputs of the exploration.                                              *)
(***************************************************************************)
\* args.message (argv words); run() joins them with " "
ArgLists == {
    <<>>,
    << <<" ">> >>,
    << <<" ", "l", "s">>, <<"x">> >>,
    << <<"d", "d">>, <<"x">> >>,
    << <<"x", ";", "d", "d">> >> }

\* what sys.stdin.read() returns when stdin is not a terminal
StdinTexts == {
    <<>>,
    <<"d", "d", " ", "x", "\n">>,
    <<"d", "d", " ", "i", "f", "=", "x", " ", "o", "f", "=", "y", "\n">> }

\* lines typed at the escalation prompt
RawAnswers == {
    <<"y">>, <<" ", "A", " ">>, <<"n">>, <<>>, <<"y", "e", "s">> }

\* aggregated replies of the model
Replies == { <<>>, <<"reply">> }

\* texts typed into the GUI panel's input field
GuiTexts == {
    <<"d", "d">>, <<"d", "d", " ", "y">>, <<"l", "s">>, <<"r", "m">>,
    <<" ">> }

RECURSIVE Join(_)
\* " ".join(args.message)
Join(words) ==
    IF words = <<>> THEN <<>>
    ELSE IF Len(words) = 1 THEN words[1]
    ELSE words[1] \o <<" ">> \o Join(Tail(words))

(***************************************************************************)
(* The turn record.                                                        *)
(***************************************************************************)
StoreSnapshot(st) ==
    [trusted_commands |-> st.trusted_commands,
     command_history  |-> st.command_history,
     file             |-> st.file]

SessionSnapshot(ss) == [history |-> ss.history, file |-> ss.file]

NoTurn ==
    [message         |-> <<>>,
     save_to_session |-> FALSE,
     piped_input     |-> <<>>,
     stdin_exhausted |-> FALSE,
     safe            |-> "unset",   \* _is_safe_command: "yes" / "no"
     probe           |-> "unset",   \* how the existence probe ended
     answered        |-> "unset",   \* "line" / "eof"
     choice          |-> <<>>,      \* input().strip().lower()
     prompts         |-> 0,         \* escalation prompts printed
     executions      |-> 0,         \* calls of _execute_command
     outcome         |-> "unset",   \* how subprocess.run ended in it
     dispatches      |-> 0,         \* calls of chat_with_messages
     ran             |-> <<>>,      \* what the shell was asked to run
     result          |-> [success |-> FALSE, output |-> <<>>],
     response        |-> <<>>,
     approved0       |-> {},        \* always_approved when the turn began
     store0          |-> StoreSnapshot([trusted_commands |-> {},
                                        command_history |-> <<>>,
                                        file |-> NoFile]),
     session0        |-> SessionSnapshot([history |-> <<>>,
                                          file |-> NoSessionFile])]

SetStore(st) ==
    /\ trusted_commands' = st.trusted_commands
    /\ command_history' = st.command_history
    /\ trust_file' = st.file

SetSession(ss) ==
    /\ session_history' = ss.history
    /\ session_file' = ss.file

\* the observer of the store calls keeps the last two: the operation, the
\* words of its argument, and whether it appended a history event
Called(op, command, appended) ==
    calls' = LastN(Append(calls, [op |-> op, parts |-> Parts(command),
                                  appended |-> appended]), 2)

\* no GUI process is running
NoGui == [running |-> FALSE, trusted_commands |-> {}, command_history |-> <<>>]

\* nothing called yet.  op: the last call; cleared: clear_history was
\* called and add_message was not called since; log: what add_message
\* was given since the last clear_history; the last get_history(max_turns)
\* and get_context_messages() results
NoCall ==
    [op |-> "none", cleared |-> FALSE, log |-> <<>>, max_turns |-> 0,
     result |-> <<>>, context |-> <<>>]

\* the settings of Config and the keys they are read from
Settings == {"api_endpoint", "api_key", "model", "max_tokens", "temperature"}

\* os.getenv / dict.get found nothing
None == <<"<None>">>

\* the three sources before anything is set: no environment variable, no
\* default configuration in gui/data/configs.json, no .env file
NoSources ==
    [env      |-> [s \in Settings |-> None],
     gui      |-> [exists |-> FALSE, value |-> [s \in Settings |-> None]],
     env_file |-> [s \in Settings |-> None]]

\* no Config object has been constructed
NoConfig ==
    [built |-> FALSE, sources |-> NoSources,
     value |-> [s \in Settings |-> None]]

\* no history file, nothing collected.  status: "missing", "unreadable"
\* or "readable"; lines: what readlines() returns; call: the last call
\* made, "none", "history" or "collect", with its circumstances (SHELL,
\* how os.getcwd() and os.listdir() ended) and what it returned
NoCollector ==
    [status |-> "missing", lines |-> <<>>, call |-> "none",
     shell |-> <<>>, cwd |-> "ok", listing |-> "ok",
     include_history |-> FALSE, piped_input |-> <<>>,
     result |-> <<>>, raised |-> FALSE]

\* the API tester just opened.  thread: "none", "running" or "finished";
\* thread_response: APIStreamThread._full_response; full_response:
\* APITester._full_response; history, total_calls: history.json and
\* stats.json; finished: requests whose thread ended after streaming text
NoTester ==
    [message_input |-> <<>>, response_output |-> <<>>,
     full_response |-> <<>>, thread |-> "none", thread_message |-> <<>>,
     thread_response |-> <<>>, failed |-> FALSE, history |-> <<>>,
     total_calls |-> 0, requests |-> 0, finished |-> 0]

\* the configuration manager opened without a configs.json.  rows: the
\* items of the list widget; data_dir: the directory of configs.json
\* exists; file: configs.json and whether it exists
NoConfigsFile == [exists |-> FALSE, configs |-> <<>>, default_config |-> None]
NoManager ==
    [configs |-> <<>>, default_config |-> None, rows |-> 0,
     data_dir |-> TRUE, file |-> NoConfigsFile]

\* nothing read, nothing printed, no signal.  mode: "single", "menu" or
\* "interactive"; api_failed: the model call raised in this turn
NoTerminal ==
    [isatty |-> TRUE, stdin |-> <<>>, args |-> <<>>, mode |-> "single",
     output |-> <<>>, api_failed |-> FALSE, signal |-> "none"]

Init ==
    /\ trusted_commands = {}
    /\ command_history = <<>>
    /\ trust_file = NoFile
    /\ session_history = <<>>
    /\ session_file = NoSessionFile
    /\ now = 0
    /\ pc = "stopped"
    /\ turn = NoTurn
    /\ messages = <<>>
    /\ approval_log = <<>>
    /\ calls = <<>>
    /\ always_approved = {}
    /\ invocations = 0
    /\ gui_config = NoGui
    /\ session_call = NoCall
    /\ config = NoConfig
    /\ terminal = NoTerminal
    /\ collector = NoCollector
    /\ tester = NoTester
    /\ manager = NoManager


(***************************************************************************)
(* _single_mode and the calls it makes (src/ai_cli.py:382-475).            *)
(***************************************************************************)
\* faulty variant: the probe and the prompt come before the safe-list test
branch_probe_first(safe, parts) ==
    IF parts # <<>> THEN "probe" ELSE IF safe THEN "execute" ELSE "question"

\* lines 385 and 426-427: where the turn goes once _is_safe_command returned
branch_after_safe(safe, parts) ==
    IF safe THEN "execute"
    ELSE IF parts # <<>> THEN "probe"
    ELSE "question"

\* lines 427-429 and 472-475: where it goes once the probe returned
branch_after_probe(potential) ==
    IF potential THEN "prompt" ELSE "question"

\* faulty variant: 'y' is stored like 'a'
ask_y_is_permanent(st, command, choice) ==
    IF choice \in {<<"a">>, <<"y">>}
    THEN [st |-> add_trusted_command(st, command, ReasonCLI), result |-> TRUE]
    ELSE [st |-> st, result |-> FALSE]

\* faulty variant: every answer is an approval
ask_accepts_all(st, command, choice) ==
    IF choice = <<"a">>
    THEN [st |-> add_trusted_command(st, command, ReasonCLI), result |-> TRUE]
    ELSE [st |-> st, result |-> TRUE]

\* _ask_trust_command after input() returned: lines 236-248
_ask_trust_command(st, command, choice) ==
    IF choice = <<"a">>
    THEN [st |-> add_trusted_command(st, command, ReasonCLI), result |-> TRUE]
    ELSE IF choice = <<"y">>
    THEN [st |-> st, result |-> TRUE]
    ELSE [st |-> st, result |-> FALSE]

UserMessage(message) == [role |-> "user", content |-> message]

\* messages = get_context_messages(); append the input unless a user
\* message is already last (lines 395-397, 439-441, 516-518)
with_current_input(ss, message) ==
    LET m == get_context_messages(ss)
    IN  IF m = <<>> \/ m[Len(m)].role # "user"
        THEN Append(m, UserMessage(message))
        ELSE m

\* list.insert(i, x)
Insert(q, i, x) ==
    SubSeq(q, 1, i) \o <<x>> \o SubSeq(q, i + 1, Len(q))

\* lines 394-411 (and 438-455): command result first, context second
build_command_messages(ss, message, command_context, context) ==
    LET m1 == with_current_input(ss, message)
        m2 == Insert(m1, 0,
                [role |-> "system",
                 content |-> <<"command and output:\n">> \o command_context
                               \o <<"\n\nanswer from this">>])
    IN  IF context # <<>>
        THEN Insert(m2, 1,
                [role |-> "system",
                 content |-> <<"context:\n">> \o context \o <<"\n">>])
        ELSE m2

\* _send_and_display, lines 515-527
build_question_messages(ss, message, context) ==
    LET m1 == with_current_input(ss, message)
    IN  IF context # <<>>
        THEN Insert(m1, 0,
                [role |-> "system",
                 content |-> <<"context:\n">> \o context
                               \o <<"\nanswer from this">>])
        ELSE m1

\* what the shell was asked to run by one bash -c call
Ran(via, script, started) ==
    IF started
    THEN LET c == ShellCommands(script)
         IN  [i \in 1..Len(c) |-> [via |-> via, argv |-> c[i]]]
    ELSE <<>>

\* faulty variant: the turn saves whatever run() asked for
enter_always_saving(st, message, save_to_session, piped, exhausted) ==
    LET safe == _is_safe_command(st, message)
    IN  /\ turn' = [NoTurn EXCEPT
                      !.message = message,
                      !.save_to_session = TRUE,
                      !.piped_input = piped,
                      !.stdin_exhausted = exhausted,
                      !.safe = IF safe THEN "yes" ELSE "no",
                      !.approved0 = always_approved,
                      !.store0 = StoreSnapshot(st),
                      !.session0 = SessionSnapshot(
                                     load_session(SessionState))]
        /\ pc' = branch_after_safe(safe, Parts(message))

\* _single_mode from its first line to the first call that blocks
EnterSingleMode(st, message, save_to_session, piped, exhausted) ==
    LET safe == _is_safe_command(st, message)
    IN  /\ turn' = [NoTurn EXCEPT
                      !.message = message,
                      !.save_to_session = save_to_session,
                      !.piped_input = piped,
                      !.stdin_exhausted = exhausted,
                      !.safe = IF safe THEN "yes" ELSE "no",
                      !.approved0 = always_approved,
                      !.store0 = StoreSnapshot(st),
                      !.session0 = SessionSnapshot(
                                     load_session(SessionState))]
        /\ pc' = branch_after_safe(safe, Parts(message))

\* faulty variant: the length is taken of the text as read
accepts_unstripped(piped_input) ==
    piped_input # <<>> /\ Len(piped_input) > PipedMinLen

\* line 301: piped_input and len(piped_input.strip()) > 10
accepts_piped(piped_input) ==
    piped_input # <<>> /\ Len(Strip(piped_input)) > PipedMinLen

\* A CLI invocation: the module-level CommandConfig() and run()
\* (command_config.py:107, ai_cli.py:280-322) with a message, with stdin
\* redirected, or on a terminal with neither (the main menu).  An
\* exception out of either constructor ends the process.
RunBody(isatty, stdin_text, args_message) ==
    /\ pc = "stopped"
    /\ invocations < MaxInvocations
    /\ LET st == load(StoreState)
           ss == load_session(SessionState)
           piped_input == IF ~isatty THEN stdin_text ELSE <<>>
       IN  /\ SetStore(st)
           /\ SetSession(ss)
           /\ invocations' = invocations + 1
           /\ messages' = <<>>
           /\ IF load_raises(trust_file) \/ load_raises(session_file)
              THEN /\ turn' = NoTurn
                   /\ pc' = "crashed"
              ELSE IF accepts_piped(piped_input)
              THEN EnterSingleMode(st, piped_input, FALSE, piped_input, TRUE)
              ELSE IF args_message # <<>>
              THEN EnterSingleMode(st, Join(args_message), TRUE, <<>>,
                                   ~isatty)
              ELSE /\ turn' = NoTurn
                   /\ pc' = IF isatty THEN "menu" ELSE "done"
    /\ UNCHANGED <<now, approval_log, calls, always_approved>>

Run(isatty, stdin_text, args_message) ==
    /\ RunBody(isatty, stdin_text, args_message)
    /\ UNCHANGED side_vars

\* the existence probe returns (lines 427, 477-488)
ProbeReturn(outcome) ==
    /\ pc = "probe"
    /\ LET cmd == Parts(turn.message)[1]
           script == type_script(cmd)
           potential == _is_potential_command(outcome)
           next == branch_after_probe(potential)
       IN  /\ ShellSyntaxError(script) => outcome = "nonzero"
           /\ turn' = [turn EXCEPT
                         !.probe = outcome,
                         !.ran = @ \o Ran("probe", script, outcome # "raise"),
                         !.prompts = IF next = "prompt" THEN @ + 1 ELSE @]
           /\ pc' = next
    /\ UNCHANGED <<side_vars, store_vars, session_vars, now, messages, approval_log,
                   calls, always_approved, invocations>>

\* input() at the escalation prompt returns a line (line 236)
AnswerPrompt(raw) ==
    /\ pc = "prompt"
    /\ ~turn.stdin_exhausted
    /\ LET choice == Lower(Strip(raw))
           cmd == Parts(turn.message)[1]
           r == _ask_trust_command(StoreState, turn.message, choice)
       IN  /\ SetStore(r.st)
           /\ now' = r.st.now
           /\ approval_log' =
                IF r.st.now # now
                THEN Append(approval_log,
                            Event(cmd, turn.message, ReasonCLI, now))
                ELSE approval_log
           /\ IF choice = <<"a">>
              THEN /\ Called("add", turn.message, r.st.now # now)
                   /\ always_approved' = always_approved \cup {cmd}
              ELSE UNCHANGED <<calls, always_approved>>
           /\ turn' = [turn EXCEPT !.answered = "line", !.choice = choice]
           /\ pc' = IF r.result THEN "execute" ELSE "question"
    /\ UNCHANGED <<side_vars, session_vars, messages, invocations>>

\* input() at the escalation prompt meets end-of-input: EOFError, which
\* nothing between input() and the top of the process catches
AnswerEOF ==
    /\ pc = "prompt"
    /\ turn' = [turn EXCEPT !.answered = "eof"]
    /\ pc' = "crashed"
    /\ UNCHANGED <<side_vars, store_vars, session_vars, now, messages, approval_log,
                   calls, always_approved, invocations>>

\* _execute_command returns; the rest of the branch up to the model call
\* (lines 387-416 and 431-460)
ExecuteCommand(outcome) ==
    /\ pc = "execute"
    /\ LET res == _execute_command(outcome)
           cc == _format_command_context(turn.message, res.success,
                                         res.output)
           ss == IF turn.save_to_session
                 THEN add_message(SessionState, "user", turn.message)
                 ELSE SessionState
       IN  /\ SetSession(ss)
           /\ now' = ss.now
           /\ messages' = build_command_messages(ss, turn.message, cc,
                                                 collect(turn.piped_input))
           /\ turn' = [turn EXCEPT
                         !.executions = @ + 1,
                         !.outcome = outcome,
                         !.ran = @ \o Ran("execute", turn.message,
                                          outcome # "error"),
                         !.result = res,
                         !.dispatches = @ + 1]
           /\ pc' = "stream"
    /\ UNCHANGED <<side_vars, store_vars, approval_log, calls, always_approved, invocations>>

\* _send_and_display up to the model call (lines 470-475, 509-530)
SendAndDisplay ==
    /\ pc = "question"
    /\ LET ss == IF turn.save_to_session
                 THEN add_message(SessionState, "user", turn.message)
                 ELSE SessionState
       IN  /\ SetSession(ss)
           /\ now' = ss.now
           /\ messages' = build_question_messages(ss, turn.message,
                                                  collect(turn.piped_input))
           /\ turn' = [turn EXCEPT !.dispatches = @ + 1]
           /\ pc' = "stream"
    /\ UNCHANGED <<side_vars, store_vars, approval_log, calls, always_approved, invocations>>

\* where control goes once the reply is handled: back into the loop of
\* _interactive_mode, or out of _single_mode
after_turn == IF terminal.mode = "interactive" THEN "interactive" ELSE "done"

\* the stream ends with the aggregated response (lines 415-423, 529-537)
StreamDone(response) ==
    /\ pc = "stream"
    /\ LET ss == IF turn.save_to_session /\ response # <<>>
                 THEN add_message(SessionState, "assistant", response)
                 ELSE SessionState
       IN  /\ SetSession(ss)
           /\ now' = ss.now
           /\ turn' = [turn EXCEPT !.response = response]
           /\ pc' = after_turn
    /\ UNCHANGED <<side_vars, store_vars, messages, approval_log, calls,
                   always_approved, invocations>>

\* choices typed at the main menu (line 333), stripped; '1' and '2' enter
\* the interactive mode and launch the GUI
MenuChoices == {<<"0">>, <<"3">>, <<"9">>}

\* _main_menu, one pass of its loop (lines 326-346): '0' leaves, '3'
\* clears the session, anything unknown prints an error and asks again
MainMenu(choice) ==
    /\ pc = "menu"
    /\ IF choice = <<"0">>
       THEN /\ pc' = "done"
            /\ UNCHANGED session_vars
       ELSE IF choice = <<"3">>
       THEN /\ SetSession(clear_history(SessionState))
            /\ pc' = "menu"
       ELSE UNCHANGED <<pc, session_vars>>
    /\ UNCHANGED <<side_vars, store_vars, now, turn, messages, approval_log,
                   calls, always_approved, invocations>>

\* the process ends: run() returned, or the traceback was printed
ProcessExit ==
    /\ pc \in {"done", "crashed"}
    /\ pc' = "stopped"
    /\ turn' = NoTurn
    /\ messages' = <<>>
    /\ UNCHANGED <<side_vars, store_vars, session_vars, now, approval_log, calls,
                   always_approved, invocations>>


(***************************************************************************)
(* The GUI panel (src/gui/command_manager.py:312-362), run as a process of *)
(* its own between two CLI invocations: it loads the file when it starts.  *)
(***************************************************************************)
\* add_command: the stripped text, unless empty or already listed
GuiAddCommand(text) ==
    /\ pc = "stopped"
    /\ invocations < MaxInvocations
    /\ invocations' = invocations + 1
    /\ LET st0 == load(StoreState)
           command == Strip(text)
           listed == command \in Range(get_trusted_commands(st0))
           st1 == IF command = <<>> \/ listed THEN st0
                  ELSE add_trusted_command(st0, command, ReasonGUI)
       IN  /\ SetStore(st1)
           /\ now' = st1.now
           /\ approval_log' =
                IF st1.now # now
                THEN Append(approval_log,
                            Event(Parts(command)[1], command, ReasonGUI, now))
                ELSE approval_log
           /\ IF command = <<>> \/ listed THEN UNCHANGED calls
              ELSE Called("add", command, st1.now # now)
    /\ UNCHANGED <<side_vars, session_vars, turn_vars, always_approved>>

\* remove_command: the selected item of the list, confirmed
GuiRemoveCommand(command) ==
    /\ pc = "stopped"
    /\ invocations < MaxInvocations
    /\ invocations' = invocations + 1
    /\ LET st0 == load(StoreState)
       IN  /\ command \in Range(get_trusted_commands(st0))
           /\ SetStore(remove_trusted_command(st0, command))
           /\ Called("remove", command, FALSE)
           /\ always_approved' = always_approved \ {Parts(command)[1]}
    /\ UNCHANGED <<side_vars, session_vars, turn_vars, now, approval_log>>

\* clear_commands, confirmed
GuiClearCommands ==
    /\ pc = "stopped"
    /\ invocations < MaxInvocations
    /\ invocations' = invocations + 1
    /\ SetStore(clear_trusted_commands(load(StoreState)))
    /\ Called("clear", <<>>, FALSE)
    /\ always_approved' = {}
    /\ UNCHANGED <<side_vars, session_vars, turn_vars, now, approval_log>>

Next ==
    \/ \E isatty \in BOOLEAN, args_message \in ArgLists :
         \E stdin_text \in (IF isatty THEN {<<>>} ELSE StdinTexts) :
           Run(isatty, stdin_text, args_message)
    \/ \E outcome \in ProbeOutcomes : ProbeReturn(outcome)
    \/ \E raw \in RawAnswers : AnswerPrompt(raw)
    \/ AnswerEOF
    \/ \E outcome \in ExecOutcomes : ExecuteCommand(outcome)
    \/ SendAndDisplay
    \/ \E response \in Replies : StreamDone(response)
    \/ \E choice \in MenuChoices : MainMenu(choice)
    \/ ProcessExit
    \/ \E text \in GuiTexts : GuiAddCommand(text)
    \/ \E command \in trusted_commands \cup Range(trust_file.trusted_commands) :
         GuiRemoveCommand(command)
    \/ GuiClearCommands

Spec == Init /\ [][Next]_vars

\* the trust store alone: GUI sessions, one store operation each
NextStore ==
    \/ \E text \in GuiTexts : GuiAddCommand(text)
    \/ \E command \in Range(trust_file.trusted_commands) :
         GuiRemoveCommand(command)
    \/ GuiClearCommands

SpecStore == Init /\ [][NextStore]_vars

(***************************************************************************)
(* The revocation scenario: one process approves, revokes and clears over  *)
(* two names, and the trust file may be deleted from outside.              *)
(***************************************************************************)
\* arguments of the store calls: a name with an argument, bare names, a
\* blank line
RevokeLines ==
    { <<"d", "d", " ", "-", "v">>, <<"d", "d">>, <<"n", "c">>, <<" ">> }

StoreApprove(line) ==
    /\ Len(command_history) < MaxApprovals
    /\ LET st == add_trusted_command(StoreState, line, ReasonCLI)
       IN  /\ SetStore(st)
           /\ now' = st.now
    /\ UNCHANGED <<side_vars, session_vars, turn_vars, approval_log, calls,
                   always_approved, invocations>>

StoreRevoke(line) ==
    /\ SetStore(remove_trusted_command(StoreState, line))
    /\ UNCHANGED <<side_vars, session_vars, turn_vars, now, approval_log,
                   calls, always_approved, invocations>>

StoreClear ==
    /\ SetStore(clear_trusted_commands(StoreState))
    /\ UNCHANGED <<side_vars, session_vars, turn_vars, now, approval_log,
                   calls, always_approved, invocations>>

\* .trusted_commands.json is deleted while the process runs
TrustFileDeleted ==
    /\ trust_file # NoFile
    /\ trust_file' = NoFile
    /\ UNCHANGED <<side_vars, session_vars, turn_vars, now, approval_log,
                   calls, always_approved, invocations, trusted_commands,
                   command_history>>

NextRevoke ==
    \/ \E line \in RevokeLines : StoreApprove(line)
    \/ \E line \in RevokeLines : StoreRevoke(line)
    \/ StoreClear
    \/ TrustFileDeleted

SpecRevoke == Init /\ [][NextRevoke]_vars

(***************************************************************************)
(* The eviction scenario: one process calls the store with a fresh name    *)
(* each time (x1, x2, x3, ...), re-approves, revokes the oldest trusted    *)
(* name and clears in between, keeping at most MaxTrusted names trusted.   *)
(***************************************************************************)
RECURSIVE Decimal(_)
Decimal(k) ==
    LET d == <<"0", "1", "2", "3", "4", "5", "6", "7", "8", "9">>
    IN  IF k < 10 THEN <<d[k + 1]>>
        ELSE Append(Decimal(k \div 10), d[(k % 10) + 1])

\* the k-th name: x1, x2, ...
Name(k) == <<"x">> \o Decimal(k)

\* a name approved before every other trusted name
Oldest(S) ==
    CHOOSE c \in S : \A d \in S \ {c} :
        \/ Len(c) < Len(d)
        \/ Len(c) = Len(d) /\ StrLess(c, d)

Newest(S) ==
    CHOOSE c \in S : \A d \in S \ {c} :
        \/ Len(d) < Len(c)
        \/ Len(c) = Len(d) /\ StrLess(d, c)

EvictApprove ==
    /\ now < MaxNames
    /\ Cardinality(trusted_commands) < MaxTrusted
    /\ LET command == Name(now + 1) \o <<" ", "-", "v">>
           st == add_trusted_command(StoreState, command, ReasonGUI)
       IN  /\ SetStore(st)
           /\ now' = st.now
           /\ approval_log' =
                IF st.now # now
                THEN Append(approval_log,
                            Event(Name(now + 1), command, ReasonGUI, now))
                ELSE approval_log
    /\ UNCHANGED <<side_vars, session_vars, turn_vars, calls, always_approved,
                   invocations>>

EvictApproveAgain ==
    /\ trusted_commands # {}
    /\ LET command == Newest(trusted_commands)
           st == add_trusted_command(StoreState, command, ReasonCLI)
       IN  /\ SetStore(st)
           /\ now' = st.now
           /\ approval_log' =
                IF st.now # now
                THEN Append(approval_log,
                            Event(command, command, ReasonCLI, now))
                ELSE approval_log
    /\ UNCHANGED <<side_vars, session_vars, turn_vars, calls, always_approved,
                   invocations>>

EvictRevokeOldest ==
    /\ trusted_commands # {}
    /\ SetStore(remove_trusted_command(StoreState, Oldest(trusted_commands)))
    /\ UNCHANGED <<side_vars, session_vars, turn_vars, now, approval_log, calls,
                   always_approved, invocations>>

EvictClear ==
    /\ SetStore(clear_trusted_commands(StoreState))
    /\ UNCHANGED <<side_vars, session_vars, turn_vars, now, approval_log, calls,
                   always_approved, invocations>>

NextEvict == EvictApprove \/ EvictApproveAgain \/ EvictRevokeOldest \/ EvictClear

SpecEvict == Init /\ [][NextEvict]_vars


(***************************************************************************)
(* Properties.                                                             *)
(***************************************************************************)
\* a turn is in progress or has just ended, and its message has words
InTurn == turn.safe # "unset"
HasToken == Parts(turn.message) # <<>>
Token == Parts(turn.message)[1]

\* the store and the session log as the turn's process sees them
StoreNow == StoreSnapshot(StoreState)
SessionNow == SessionSnapshot(SessionState)

\* the user answered the prompt of this turn with 'y' or 'a'
Approved ==
    /\ turn.prompts = 1
    /\ turn.answered = "line"
    /\ turn.choice \in {<<"y">>, <<"a">>}

IsCommandResult(m) ==
    /\ m.role = "system"
    /\ m.content # <<>>
    /\ m.content[1] = "command and output:\n"

\* the list was dispatched once, holds no command-result message, and
\* carries the input text: as the last, user-role message, or (piped turn)
\* inside the context message
DispatchedAsQuestion ==
    /\ turn.dispatches = 1
    /\ messages # <<>>
    /\ \A i \in DOMAIN messages : ~IsCommandResult(messages[i])
    /\ \/ messages[Len(messages)] = UserMessage(turn.message)
       \/ /\ turn.piped_input = turn.message
          /\ messages[1].role = "system"
          /\ messages[1].content
               = <<"context:\n">> \o collect(turn.message)
                   \o <<"\nanswer from this">>

\* C1: _execute_command is called in a _single_mode turn only if the first
\* token of the input was in SAFE_COMMANDS or in the trusted set when the
\* input was classified, or the user answered 'y' or 'a' to the prompt of
\* that turn; otherwise no command is executed.
C1_ExecuteOnlyIfApproved ==
    (pc = "execute" \/ turn.executions > 0) =>
        /\ HasToken
        /\ \/ Token \in SAFE_COMMANDS
           \/ Token \in turn.store0.trusted_commands
           \/ Approved

C1_Witness ==
    /\ pc = "done"
    /\ turn.executions = 1
    /\ Token \notin SAFE_COMMANDS \cup turn.store0.trusted_commands
    /\ turn.choice = <<"y">>

\* C2: classifying a line (_is_safe_command, then the existence probe)
\* has no side effect: the trust store and the session log are as they
\* were, and the only thing the shell was asked to run is the lookup
\* "type <first token>".
C2_ClassificationHasNoSideEffects ==
    (InTurn /\ turn.answered = "unset"
            /\ pc \in {"probe", "prompt", "execute", "question"}) =>
        /\ StoreNow = turn.store0
        /\ SessionNow = turn.session0
        /\ \A i \in DOMAIN turn.ran :
             turn.ran[i].argv = <<<<"t", "y", "p", "e">>, Token>>

\* the input lines of the exploration whose first token is built in
SafeLines ==
    {line \in {Join(words) : words \in ArgLists} \cup GuiTexts \cup StdinTexts :
        Parts(line) # <<>> /\ Parts(line)[1] \in SAFE_COMMANDS}

\* C3: a line whose first token is in SAFE_COMMANDS classifies as
\* pre-approved whatever the trust store holds, after any Approve, Revoke
\* and Clear: no probe, no prompt.
C3_SafeTokenPreApproved ==
    /\ \A line \in SafeLines : _is_safe_command(StoreState, line)
    /\ (InTurn /\ HasToken /\ Token \in SAFE_COMMANDS) =>
           /\ turn.safe = "yes"
           /\ turn.probe = "unset"
           /\ turn.prompts = 0
           /\ pc \in {"execute", "stream", "done"}

C3_Witness ==
    /\ pc = "done"
    /\ HasToken
    /\ Token \in SAFE_COMMANDS
    /\ turn.executions = 1
    /\ trusted_commands # {}
    /\ Token \notin trusted_commands

C5_PromptIffPotential ==
    InTurn =>
        /\ pc = "probe" => turn.prompts = 0
        /\ pc # "probe" =>
             turn.prompts = IF turn.safe = "no" /\ HasToken
                               /\ turn.probe = "exit0"
                            THEN 1 ELSE 0

C5_Witness ==
    /\ pc = "done"
    /\ turn.prompts = 1
    /\ turn.safe = "no"
    /\ turn.probe = "exit0"


\* the prompt of this turn got something other than 'y' or 'a': another
\* line, an empty line, or end-of-input
Declined ==
    /\ turn.prompts = 1
    /\ \/ turn.answered = "eof"
       \/ turn.answered = "line" /\ turn.choice \notin {<<"y">>, <<"a">>}

\* C6: every response to the prompt other than 'y' or 'a' (trimmed,
\* lower-cased), an empty line and end-of-input included, is a decline:
\* nothing is executed, the trust store is unchanged, and the same input
\* goes to the model as a question with no command-result message.
C6_OtherAnswerIsDecline ==
    Declined =>
        /\ turn.executions = 0
        /\ StoreNow = turn.store0
        /\ pc \in {"question", "stream", "done"}
        /\ pc \in {"stream", "done"} => DispatchedAsQuestion

\* C7: answering 'y' or declining leaves the trusted set and the approval
\* history unchanged, in memory and in the file; in a CLI turn the store
\* changes only with the answer 'a', which adds the first token.
C7_OnlyAlwaysMutatesStore ==
    InTurn =>
        /\ (turn.answered = "line" /\ turn.choice = <<"a">>) =>
             /\ StoreNow # turn.store0
             /\ trusted_commands
                  = turn.store0.trusted_commands \cup {Token}
        /\ ~(turn.answered = "line" /\ turn.choice = <<"a">>) =>
             StoreNow = turn.store0

C7_Witness ==
    /\ pc = "done"
    /\ turn.prompts = 1
    /\ turn.choice = <<"y">>
    /\ turn.executions = 1
    /\ turn.store0.trusted_commands # {}

GuiStoreState ==
    [trusted_commands |-> gui_config.trusted_commands,
     command_history  |-> gui_config.command_history,
     file             |-> trust_file,
     now              |-> now]

SetGuiStore(st) ==
    /\ gui_config' = [running          |-> TRUE,
                      trusted_commands |-> st.trusted_commands,
                      command_history  |-> st.command_history]
    /\ trust_file' = st.file

\* lines answered 'a' at the CLI's prompt
PromptedLines == { <<"d", "d", " ", "x">>, <<"r", "m">> }

\* _launch_gui (ai_cli.py:490-507): Popen of run.py; the new process
\* imports command_config, which loads the file
LaunchGui ==
    /\ ~gui_config.running
    /\ invocations < MaxInvocations
    /\ invocations' = invocations + 1
    /\ LET st == load(GuiStoreState)
       IN  gui_config' = [running          |-> TRUE,
                         trusted_commands |-> st.trusted_commands,
                         command_history  |-> st.command_history]
    /\ UNCHANGED <<store_vars, session_vars, turn_vars, now, approval_log,
                   calls, always_approved, session_call, config, terminal,
                   tool_vars>>

\* a CLI invocation starts: import of command_config
CliLoad ==
    /\ pc = "stopped"
    /\ invocations < MaxInvocations
    /\ invocations' = invocations + 1
    /\ SetStore(load(StoreState))
    /\ pc' = "prompt"
    /\ UNCHANGED <<side_vars, session_vars, turn, messages, now, approval_log,
                   calls, always_approved>>

\* the prompt is answered 'a' for a line that is not pre-approved in
\* this process (lines 385, 239-242): add_trusted_command returns
CliApproveAlways(line) ==
    /\ pc = "prompt"
    /\ now < MaxApprovals
    /\ ~_is_safe_command(StoreState, line)
    /\ LET st == add_trusted_command(StoreState, line, ReasonCLI)
       IN  /\ SetStore(st)
           /\ now' = st.now
    /\ always_approved' = always_approved \cup {Parts(line)[1]}
    /\ pc' = "done"
    /\ UNCHANGED <<side_vars, session_vars, turn, messages, approval_log,
                   calls, invocations>>

\* the CLI process ends
CliExit ==
    /\ pc \in {"prompt", "done"}
    /\ pc' = "stopped"
    /\ UNCHANGED <<side_vars, store_vars, session_vars, turn, messages, now,
                   approval_log, calls, always_approved, invocations>>

\* add_command in the running GUI (command_manager.py:312-328)
PanelAdd(text) ==
    /\ gui_config.running
    /\ now < MaxApprovals
    /\ LET st0 == GuiStoreState
           command == Strip(text)
           listed == command \in Range(get_trusted_commands(st0))
           st1 == IF command = <<>> \/ listed THEN st0
                  ELSE add_trusted_command(st0, command, ReasonGUI)
       IN  /\ SetGuiStore(st1)
           /\ now' = st1.now
           /\ always_approved' =
                IF command = <<>> \/ listed THEN always_approved
                ELSE always_approved \cup {Parts(command)[1]}
    /\ UNCHANGED <<trusted_commands, command_history, session_vars,
                   turn_vars, approval_log, calls, invocations,
                   session_call, config, terminal,
                   tool_vars>>

\* remove_command in the running GUI (command_manager.py:330-348)
PanelRemove(command) ==
    /\ gui_config.running
    /\ command \in Range(get_trusted_commands(GuiStoreState))
    /\ SetGuiStore(remove_trusted_command(GuiStoreState, command))
    /\ always_approved' = always_approved \ {Parts(command)[1]}
    /\ UNCHANGED <<trusted_commands, command_history, session_vars,
                   turn_vars, now, approval_log, calls, invocations,
                   session_call, config, terminal,
                   tool_vars>>

\* clear_commands in the running GUI (command_manager.py:350-362)
PanelClear ==
    /\ gui_config.running
    /\ SetGuiStore(clear_trusted_commands(GuiStoreState))
    /\ always_approved' = {}
    /\ UNCHANGED <<trusted_commands, command_history, session_vars,
                   turn_vars, now, approval_log, calls, invocations,
                   session_call, config, terminal,
                   tool_vars>>

\* the GUI window is closed
PanelClose ==
    /\ gui_config.running
    /\ gui_config' = NoGui
    /\ UNCHANGED <<store_vars, session_vars, turn_vars, now, approval_log,
                   calls, always_approved, invocations, session_call, config, terminal,
                   tool_vars>>

NextTwoProcesses ==
    \/ LaunchGui
    \/ CliLoad
    \/ \E line \in PromptedLines : CliApproveAlways(line)
    \/ CliExit
    \/ \E text \in GuiTexts : PanelAdd(text)
    \/ \E command \in gui_config.trusted_commands : PanelRemove(command)
    \/ PanelClear
    \/ PanelClose

SpecTwoProcesses == Init /\ [][NextTwoProcesses]_vars

(***************************************************************************)
(* Loading: a process starts on files in any condition.                    *)
(***************************************************************************)
\* a file that is not a JSON object has no fields to read
Malformed(shape) ==
    [exists |-> TRUE, shape |-> shape, trusted_commands |-> <<>>,
     command_history |-> <<>>]

MalformedSession(shape) == [exists |-> TRUE, shape |-> shape, history |-> <<>>]

\* .trusted_commands.json when the process starts
TrustFiles ==
    {NoFile}
    \cup {Malformed(shape) : shape \in FileShapes \ {"object"}}
    \cup {[exists |-> TRUE, shape |-> "object", trusted_commands |-> tc,
           command_history |-> <<>>] :
            tc \in {<<>>, << <<"d", "d">> >>,
                    << <<"d", "d">>, <<"r", "m">> >>}}

\* .session_history.json when the process starts
SessionFiles ==
    {NoSessionFile}
    \cup {MalformedSession(shape) : shape \in FileShapes \ {"object"}}
    \cup {[exists |-> TRUE, shape |-> "object", history |-> h] :
            h \in {<<>>,
                   <<[role |-> "user", content |-> <<"h", "i">>,
                      timestamp |-> 0]>>,
                   <<[role |-> "user", content |-> <<"h", "i">>,
                      timestamp |-> 0],
                     [role |-> "assistant", content |-> <<"reply">>,
                      timestamp |-> 1]>>}}

InitLoad ==
    /\ trusted_commands = {}
    /\ command_history = <<>>
    /\ trust_file \in TrustFiles
    /\ session_history = <<>>
    /\ session_file \in SessionFiles
    /\ now = 2
    /\ pc = "stopped"
    /\ turn = NoTurn
    /\ messages = <<>>
    /\ approval_log = <<>>
    /\ calls = <<>>
    /\ always_approved = {}
    /\ invocations = 0
    /\ gui_config = NoGui
    /\ session_call = NoCall
    /\ config = NoConfig
    /\ terminal = NoTerminal
    /\ collector = NoCollector
    /\ tester = NoTester
    /\ manager = NoManager

\* CommandConfig() at import (command_config.py:15-24, 107)
NewCommandConfig ==
    /\ pc = "stopped"
    /\ SetStore(load(StoreState))
    /\ pc' = IF load_raises(trust_file) THEN "crashed" ELSE "store_loaded"
    /\ UNCHANGED <<side_vars, session_vars, turn, messages, now,
                   approval_log, calls, always_approved, invocations>>

\* SessionManager() in run() (ai_cli.py:22-30, 294)
NewSessionManager ==
    /\ pc = "store_loaded"
    /\ SetSession(load_session(SessionState))
    /\ pc' = IF load_raises(session_file) THEN "crashed" ELSE "loaded"
    /\ UNCHANGED <<side_vars, store_vars, turn, messages, now,
                   approval_log, calls, always_approved, invocations>>

NextLoad == NewCommandConfig \/ NewSessionManager

SpecLoad == InitLoad /\ [][NextLoad]_vars

(***************************************************************************)
(* The session store alone: processes that construct a SessionManager,     *)
(* call it, and end.                                                       *)
(***************************************************************************)
\* arguments of get_history tried
MaxTurnsTried == {0, 1, 5}

Content(role) == IF role = "user" THEN <<"h", "i">> ELSE <<"reply">>

\* SessionManager() (ai_cli.py:22-40)
SessNew ==
    /\ pc = "stopped"
    /\ ~load_raises(session_file)
    /\ SetSession(load_session(SessionState))
    /\ session_call' = [session_call EXCEPT
                          !.op = "load", !.result = <<>>, !.context = <<>>]
    /\ pc' = "loaded"
    /\ UNCHANGED <<store_vars, gui_config, config, terminal, turn, messages, now,
                   approval_log, calls, always_approved, invocations,
                   tool_vars>>

\* add_message (ai_cli.py:51-58)
SessAddMessage(role) ==
    /\ pc = "loaded"
    /\ now < MaxLog
    /\ LET ss == add_message(SessionState, role, Content(role))
       IN  /\ SetSession(ss)
           /\ now' = ss.now
    /\ session_call' =
         [session_call EXCEPT
            !.op = "add", !.cleared = FALSE,
            !.log = Append(@, [role |-> role, content |-> Content(role),
                               timestamp |-> now]),
            !.result = <<>>, !.context = <<>>]
    /\ UNCHANGED <<store_vars, gui_config, config, terminal, turn_vars, approval_log, calls,
                   always_approved, invocations,
                   tool_vars>>

\* get_history(max_turns) and get_context_messages() (ai_cli.py:60-62, 69-77)
SessGetHistory(max_turns) ==
    /\ pc = "loaded"
    /\ session_call' =
         [session_call EXCEPT
            !.op = "get_history", !.max_turns = max_turns,
            !.result = get_history(SessionState, max_turns),
            !.context = get_context_messages(SessionState)]
    /\ UNCHANGED <<store_vars, session_vars, gui_config, config, terminal, turn_vars, now,
                   approval_log, calls, always_approved, invocations,
                   tool_vars>>

\* clear_history (ai_cli.py:64-67)
SessClear ==
    /\ pc = "loaded"
    /\ SetSession(clear_history(SessionState))
    /\ session_call' =
         [session_call EXCEPT
            !.op = "clear", !.cleared = TRUE, !.log = <<>>,
            !.result = <<>>, !.context = <<>>]
    /\ UNCHANGED <<store_vars, gui_config, config, terminal, turn_vars, now, approval_log,
                   calls, always_approved, invocations,
                   tool_vars>>

\* the process ends; its list is gone
SessExit ==
    /\ pc = "loaded"
    /\ session_history' = <<>>
    /\ session_call' = [session_call EXCEPT
                          !.op = "exit", !.result = <<>>, !.context = <<>>]
    /\ pc' = "stopped"
    /\ UNCHANGED <<store_vars, session_file, gui_config, config, terminal, turn, messages, now,
                   approval_log, calls, always_approved, invocations,
                   tool_vars>>

NextSession ==
    \/ SessNew
    \/ \E role \in {"user", "assistant"} : SessAddMessage(role)
    \/ \E max_turns \in MaxTurnsTried : SessGetHistory(max_turns)
    \/ SessClear
    \/ SessExit

SpecSession == Init /\ [][NextSession]_vars

(***************************************************************************)
(* The terminal scenario: the process with its standard input, the         *)
(* stream taken fragment by fragment, the interactive mode, and signals.   *)
(***************************************************************************)
\* what stands on standard input when it is not a terminal
PipedTexts ==
    StdinTexts
    \cup { <<"l", "s", " ", " ", " ", " ", " ", " ", " ", "x", "\n">>,
           <<"d", "d", " ", "i", "f", "=", "x", " ", "y", "z">>,
           <<"d", "d", " ", "i", "f", "=", "x", " ", "x", "y", "z">> }

\* run() with its inputs on record
RunObserved(isatty, stdin_text, args_message) ==
    /\ invocations < MaxRuns
    /\ RunBody(isatty, stdin_text, args_message)
    /\ terminal' = [NoTerminal EXCEPT
                      !.isatty = isatty,
                      !.stdin = stdin_text,
                      !.args = args_message,
                      !.mode = IF pc' = "menu" THEN "menu" ELSE "single"]
    /\ UNCHANGED <<gui_config, session_call, config,
                   tool_vars>>

\* the k-th fragment the model sends: f1, f2, ...  (delta.content, never
\* empty: ai_client.py:95)
Fragment(k) == <<"f">> \o Decimal(k)

\* argv of the runs explored here
TerminalArgs ==
    { <<>>, << <<"d", "d">>, <<"x">> >>, << <<" ", "l", "s">>, <<"x">> >>,
      << <<"l", "s">>, <<"x", ";", "d", "d">>, <<"y">> >> }

\* faulty variant: the failure yields nothing
NoMarker == <<>>

\* the fragment the except clause yields (ai_client.py:101-102)
ErrorMarker == <<"[error] API call failed: e">>

\* faulty variant: the new fragment goes in front
aggregate_in_front(response, chunk) == chunk \o response

\* response += chunk (lines 417, 461, 531)
aggregate(response, chunk) == response \o chunk

\* one pass of  for chunk in chat_with_messages(messages): the next
\* fragment is taken, added to the reply and printed
StreamFragment ==
    /\ pc = "stream"
    /\ Len(terminal.output) < MaxFragments
    /\ LET fragment == Fragment(Len(terminal.output) + 1)
       IN  /\ turn' = [turn EXCEPT !.response = aggregate(@, fragment)]
           /\ terminal' = [terminal EXCEPT !.output = Append(@, fragment)]
    /\ UNCHANGED <<store_vars, session_vars, now, pc, messages,
                   approval_log, calls, always_approved, invocations,
                   gui_config, session_call, config,
                   tool_vars>>

\* the request or the iteration raises: the except clause yields the
\* marker, which is the generator's last fragment
StreamFail ==
    /\ pc = "stream"
    /\ turn' = [turn EXCEPT !.response = aggregate(@, ErrorMarker)]
    /\ terminal' = [terminal EXCEPT
                      !.output = Append(@, ErrorMarker),
                      !.api_failed = TRUE]
    /\ pc' = "drained"
    /\ UNCHANGED <<store_vars, session_vars, now, messages, approval_log,
                   calls, always_approved, invocations, gui_config,
                   session_call, config,
                   tool_vars>>

\* the generator is exhausted: lines 419-423, 463-467, 533-537
StreamEnd ==
    /\ pc \in {"stream", "drained"}
    /\ LET ss == IF turn.save_to_session /\ turn.response # <<>>
                 THEN add_message(SessionState, "assistant", turn.response)
                 ELSE SessionState
       IN  /\ SetSession(ss)
           /\ now' = ss.now
    /\ pc' = after_turn
    /\ UNCHANGED <<side_vars, store_vars, turn, messages, approval_log,
                   calls, always_approved, invocations>>

\* the main menu's choice '1' (lines 338-339)
MenuInteractive ==
    /\ pc = "menu"
    /\ pc' = "interactive"
    /\ terminal' = [terminal EXCEPT !.mode = "interactive"]
    /\ UNCHANGED <<store_vars, session_vars, now, turn, messages,
                   approval_log, calls, always_approved, invocations,
                   gui_config, session_call, config,
                   tool_vars>>

\* lines typed in the interactive mode
InteractiveLines ==
    { <<>>, <<" ", "E", "x", "i", "t">>, <<"m", "e", "n", "u">>,
      <<"c", "l", "e", "a", "r">>, <<"l", "s", " ", "x">> }

\* _interactive_mode, one pass of its loop up to the call of
\* _send_and_display (lines 353-371)
InteractiveInput(raw) ==
    /\ pc = "interactive"
    /\ LET user_input == Strip(raw)
       IN  IF user_input = <<>>
           THEN UNCHANGED <<pc, turn, messages, session_vars, terminal>>
           ELSE IF Lower(user_input)
                     \in {<<"q", "u", "i", "t">>, <<"e", "x", "i", "t">>,
                          <<"q">>, <<"m", "e", "n", "u">>}
           THEN /\ pc' = "menu"
                /\ terminal' = [terminal EXCEPT !.mode = "menu"]
                /\ UNCHANGED <<turn, messages, session_vars>>
           ELSE IF Lower(user_input) = <<"c", "l", "e", "a", "r">>
           THEN /\ SetSession(clear_history(SessionState))
                /\ UNCHANGED <<pc, turn, messages, terminal>>
           ELSE /\ now < MaxStamps
                /\ turn' = [NoTurn EXCEPT
                              !.message = user_input,
                              !.save_to_session = TRUE,
                              !.approved0 = always_approved,
                              !.store0 = StoreSnapshot(StoreState),
                              !.session0 = SessionSnapshot(SessionState)]
                /\ messages' = <<>>
                /\ terminal' = [terminal EXCEPT
                                  !.output = <<>>, !.api_failed = FALSE]
                /\ pc' = "question"
                /\ UNCHANGED session_vars
    /\ UNCHANGED <<store_vars, now, approval_log, calls, always_approved,
                   invocations, gui_config, session_call, config,
                   tool_vars>>

\* SIGINT while input() waits: KeyboardInterrupt.  _interactive_mode
\* catches it and leaves its loop (lines 373-376); _main_menu (333) and
\* _ask_trust_command (236) do not, and nothing above them does
Interrupt ==
    /\ pc \in {"menu", "interactive", "prompt"}
    /\ pc' = IF pc = "interactive" THEN "menu" ELSE "crashed"
    /\ terminal' = [terminal EXCEPT
                      !.signal = "interrupt",
                      !.mode = IF pc = "interactive" THEN "menu" ELSE @]
    /\ UNCHANGED <<store_vars, session_vars, now, turn, messages,
                   approval_log, calls, always_approved, invocations,
                   gui_config, session_call, config,
                   tool_vars>>

\* the process ends and the terminal is left to the next one
TerminalExit ==
    /\ pc \in {"done", "crashed"}
    /\ pc' = "stopped"
    /\ turn' = NoTurn
    /\ messages' = <<>>
    /\ terminal' = NoTerminal
    /\ UNCHANGED <<store_vars, session_vars, now, approval_log, calls,
                   always_approved, invocations, gui_config, session_call,
                   config,
                   tool_vars>>

NextTerminal ==
    \/ \E isatty \in BOOLEAN, args_message \in TerminalArgs :
         \E stdin_text \in (IF isatty THEN {<<>>} ELSE PipedTexts) :
           RunObserved(isatty, stdin_text, args_message)
    \/ \E outcome \in ProbeOutcomes : ProbeReturn(outcome)
    \/ \E raw \in RawAnswers : AnswerPrompt(raw)
    \/ AnswerEOF
    \/ \E outcome \in ExecOutcomes : ExecuteCommand(outcome)
    \/ SendAndDisplay
    \/ StreamFragment
    \/ StreamFail
    \/ StreamEnd
    \/ \E choice \in MenuChoices : MainMenu(choice)
    \/ TerminalExit

SpecTerminal == Init /\ [][NextTerminal]_vars

\* a process on a terminal: single turns, the main menu, the interactive
\* mode, and SIGINT at each of the three prompts
NextInteractive ==
    \/ \E args_message \in TerminalArgs :
         RunObserved(TRUE, <<>>, args_message)
    \/ \E outcome \in ProbeOutcomes : ProbeReturn(outcome)
    \/ \E raw \in RawAnswers : AnswerPrompt(raw)
    \/ \E outcome \in ExecOutcomes : ExecuteCommand(outcome)
    \/ SendAndDisplay
    \/ \E response \in Replies : StreamDone(response)
    \/ \E choice \in MenuChoices : MainMenu(choice)
    \/ MenuInteractive
    \/ \E raw \in InteractiveLines : InteractiveInput(raw)
    \/ Interrupt
    \/ TerminalExit

SpecInteractive == Init /\ [][NextInteractive]_vars

(***************************************************************************)
(* The configuration scenario: the environment, the GUI's configs.json    *)
(* and the .env file are set up, then the module-level Config() is built.  *)
(***************************************************************************)
\* the settings converted by int() and float()
Numeric == {"max_tokens", "temperature"}

\* what each source holds for a setting when it holds something
EnvText(s) == IF s \in Numeric THEN <<"1">> ELSE <<"e">>
GuiText(s) == IF s \in Numeric THEN <<"2">> ELSE <<"g">>
FileText(s) == IF s \in Numeric THEN <<"3">> ELSE <<"f">>

\* the second argument of env_config.get (lines 80, 87, 94, 101, 108)
Default(s) ==
    CASE s = "api_endpoint" -> <<"https://api.openai.com/v1">>
      [] s = "api_key"      -> None
      [] s = "model"        -> <<"gpt-4">>
      [] s = "max_tokens"   -> <<"2", "0", "0", "0">>
      [] s = "temperature"  -> <<"0", ".", "7">>

\* bool(v) of a string or None
Truthy(v) == v # None /\ v # <<>>

\* str(v) of what gui_config.get returned
str(v) == IF v = None THEN <<"N", "o", "n", "e">> ELSE v

DigitValue(c) ==
    CASE c = "0" -> 0 [] c = "1" -> 1 [] c = "2" -> 2 [] c = "3" -> 3
      [] c = "4" -> 4 [] c = "5" -> 5 [] c = "6" -> 6 [] c = "7" -> 7
      [] c = "8" -> 8 [] c = "9" -> 9

RECURSIVE int(_)
\* int(text) of a decimal numeral
int(text) ==
    IF text = <<>> THEN 0
    ELSE 10 * int(SubSeq(text, 1, Len(text) - 1))
           + DigitValue(text[Len(text)])

\* float(text) of a numeral with at most one decimal, in tenths
float(text) ==
    IF Len(text) >= 2 /\ text[Len(text) - 1] = "."
    THEN 10 * int(SubSeq(text, 1, Len(text) - 2))
           + DigitValue(text[Len(text)])
    ELSE 10 * int(text)

\* os.getenv(X) or (gui_config.get(x) if gui_config else None)
\*   or env_config.get(X, default)                        (lines 77-109)
chosen(sources, s) ==
    LET gui == IF sources.gui.exists
               THEN (IF s \in Numeric THEN str(sources.gui.value[s])
                     ELSE sources.gui.value[s])
               ELSE None
        env_file == IF sources.env_file[s] # None
                    THEN sources.env_file[s] ELSE Default(s)
    IN  IF Truthy(sources.env[s]) THEN sources.env[s]
        ELSE IF Truthy(gui) THEN gui
        ELSE env_file

\* the attribute's value: int() and float() of the chosen text for the
\* numeric settings
converted(s, text) ==
    IF s = "max_tokens" THEN int(text)
    ELSE IF s = "temperature" THEN float(text)
    ELSE text

\* a variable is exported, or removed from the environment, before the
\* program starts
SetEnvironment(s, present) ==
    /\ ~config.built
    /\ config' = [config EXCEPT
                    !.sources.env[s] = IF present THEN EnvText(s) ELSE None]
    /\ config' # config
    /\ UNCHANGED <<store_vars, session_vars, now, pc, turn, messages,
                   approval_log, calls, always_approved, invocations,
                   gui_config, session_call, terminal,
                   tool_vars>>

\* a KEY=VALUE line is written to, or removed from, the .env file
WriteEnvFile(s, present) ==
    /\ ~config.built
    /\ config' = [config EXCEPT
                    !.sources.env_file[s] =
                        IF present THEN FileText(s) ELSE None]
    /\ config' # config
    /\ UNCHANGED <<store_vars, session_vars, now, pc, turn, messages,
                   approval_log, calls, always_approved, invocations,
                   gui_config, session_call, terminal,
                   tool_vars>>

\* the GUI saves a default configuration (all five fields:
\* gui/config_manager.py:245-252), or there is none
SaveGuiDefault(present) ==
    /\ ~config.built
    /\ config' = [config EXCEPT
                    !.sources.gui =
                        IF present
                        THEN [exists |-> TRUE,
                              value |-> [s \in Settings |-> GuiText(s)]]
                        ELSE NoSources.gui]
    /\ config' # config
    /\ UNCHANGED <<store_vars, session_vars, now, pc, turn, messages,
                   approval_log, calls, always_approved, invocations,
                   gui_config, session_call, terminal,
                   tool_vars>>

\* config = Config()  (line 142)
BuildConfig ==
    /\ ~config.built
    /\ config' = [config EXCEPT
                    !.built = TRUE,
                    !.value = [s \in Settings |->
                                 converted(s, chosen(config.sources, s))]]
    /\ UNCHANGED <<store_vars, session_vars, now, pc, turn, messages,
                   approval_log, calls, always_approved, invocations,
                   gui_config, session_call, terminal,
                   tool_vars>>

\* the process ends; the sources stay as they are
ConfigExit ==
    /\ config.built
    /\ config' = [config EXCEPT !.built = FALSE, !.value = NoConfig.value]
    /\ UNCHANGED <<store_vars, session_vars, now, pc, turn, messages,
                   approval_log, calls, always_approved, invocations,
                   gui_config, session_call, terminal,
                   tool_vars>>

NextConfig ==
    \/ \E s \in Settings, present \in BOOLEAN : SetEnvironment(s, present)
    \/ \E s \in Settings, present \in BOOLEAN : WriteEnvFile(s, present)
    \/ \E present \in BOOLEAN : SaveGuiDefault(present)
    \/ BuildConfig
    \/ ConfigExit

SpecConfig == Init /\ [][NextConfig]_vars

(***************************************************************************)
(* The context collector (src/context.py): the shell history file grows,   *)
(* _get_history_from_file and collect() are called.                        *)
(***************************************************************************)
\* everything but the collector
core_vars ==
    <<store_vars, session_vars, now, pc, turn, messages, approval_log,
      calls, always_approved, invocations, gui_config, session_call,
      config, terminal>>

\* sub in s
Contains(s, sub) ==
    \E i \in 1..(Len(s) - Len(sub) + 1) :
        SubSeq(s, i, i + Len(sub) - 1) = sub

\* s.startswith(prefix)
StartsWith(s, prefix) ==
    Len(s) >= Len(prefix) /\ SubSeq(s, 1, Len(prefix)) = prefix

\* values of the SHELL environment variable
Shells ==
    { <<"/", "b", "i", "n", "/", "z", "s", "h">>,
      <<"/", "b", "i", "n", "/", "b", "a", "s", "h">>,
      <<"/", "b", "i", "n", "/", "s", "h">> }

\* lines 60-65: the history file of the shell, if the shell is known
history_file(shell) ==
    IF Contains(shell, <<"z", "s", "h">>) THEN "~/.zsh_history"
    ELSE IF Contains(shell, <<"b", "a", "s", "h">>) THEN "~/.bash_history"
    ELSE "None"

\* the kinds of line a shell leaves in its history file
LineKinds == {"command", "blank", "comment", "ai", "ai_arg", "aid"}

\* the line of each kind as readlines() returns it; k numbers the commands
HistoryLine(kind, k) ==
    CASE kind = "command" -> <<"c">> \o Decimal(k) \o <<"\n">>
      [] kind = "blank"   -> <<" ", "\n">>
      [] kind = "comment" -> <<" ", "#", "1", "\n">>
      [] kind = "ai"      -> <<"a", "i", "\n">>
      [] kind = "ai_arg"  -> <<"a", "i", " ", "x", "\n">>
      [] kind = "aid"     -> <<" ", "a", "i", "d", " ", "\n">>

\* list.reverse()
Reverse(q) == [i \in 1..Len(q) |-> q[Len(q) + 1 - i]]

\* faulty variant: the last lines are cut off before they are filtered
scan_last_lines(lines, i, commands) ==
    LET tail == SubSeq(lines, Len(lines) - HistoryLimit + 1, Len(lines))
        last == IF Len(lines) > HistoryLimit THEN tail ELSE lines
        keep == SelectSeq([j \in 1..Len(last) |-> Strip(last[j])],
                          LAMBDA l : /\ l # <<>>
                                     /\ ~StartsWith(l, <<"#">>)
                                     /\ ~StartsWith(l, <<"a", "i", " ">>)
                                     /\ l # <<"a", "i">>)
    IN  Reverse(keep)

RECURSIVE scan(_, _, _)
\* lines 74-86: for line in reversed(lines), from line i backwards
scan(lines, i, commands) ==
    IF i = 0 THEN commands
    ELSE LET stripped == Strip(lines[i])
         IN  IF stripped = <<>> \/ StartsWith(stripped, <<"#">>)
             THEN scan(lines, i - 1, commands)
             ELSE IF StartsWith(stripped, <<"a", "i", " ">>)
                       \/ stripped = <<"a", "i">>
             THEN scan(lines, i - 1, commands)
             ELSE LET more == Append(commands, stripped)
                  IN  IF Len(more) >= HistoryLimit THEN more
                      ELSE scan(lines, i - 1, more)

RECURSIVE JoinLines(_)
\* "\n".join(commands)
JoinLines(commands) ==
    IF commands = <<>> THEN <<>>
    ELSE IF Len(commands) = 1 THEN commands[1]
    ELSE commands[1] \o <<"\n">> \o JoinLines(Tail(commands))

\* the three placeholder sections (lines 68, 93, 95)
NoHistory == <<"## shell history\n(no history)\n">>
NoValidCommands == <<"## shell history\n(no valid commands)\n">>
HistoryUnread == <<"## shell history\n(cannot read)\n">>

\* _get_history_from_file (lines 57-95)
_get_history_from_file(shell, status, lines) ==
    IF history_file(shell) = "None" \/ status = "missing"
    THEN NoHistory
    ELSE IF status = "unreadable"
    THEN HistoryUnread
    ELSE LET commands == scan(lines, Len(lines), <<>>)
         IN  IF commands # <<>>
             THEN <<"## recent shell commands\n">>
                    \o JoinLines(Reverse(commands))
                    \o <<"\n\nnote: a missing command shows an error\n">>
             ELSE NoValidCommands

\* the shell appends a line to its history file, creating the file
HistoryAppend(kind) ==
    /\ collector.status \in {"missing", "readable"}
    /\ Len(collector.lines) < MaxHistoryLines
    /\ LET others == Len(SelectSeq(collector.lines,
                                   LAMBDA l : Head(l) # "c"))
       IN  /\ kind # "command" => others < MaxOtherLines
           /\ collector' =
                [NoCollector EXCEPT
                   !.status = "readable",
                   !.lines = Append(collector.lines,
                                    HistoryLine(kind,
                                                Len(collector.lines) + 1))]
    /\ UNCHANGED <<core_vars, tester, manager>>

\* the path of the history file is taken by something open() cannot read
HistoryUnreadable ==
    /\ collector.status = "missing"
    /\ collector' = [NoCollector EXCEPT !.status = "unreadable"]
    /\ UNCHANGED <<core_vars, tester, manager>>

\* _get_shell_history() under a value of SHELL
GetShellHistory(shell) ==
    /\ collector' =
         [collector EXCEPT
            !.call = "history",
            !.shell = shell,
            !.result = _get_history_from_file(shell, collector.status,
                                              collector.lines)]
    /\ UNCHANGED <<core_vars, tester, manager>>

NextHistory ==
    \/ \E kind \in LineKinds : HistoryAppend(kind)
    \/ HistoryUnreadable
    \/ \E shell \in Shells : GetShellHistory(shell)

SpecHistory == Init /\ [][NextHistory]_vars

\* how os.getcwd() and os.listdir(".") can end
DirOutcomes == {"ok", "raise"}

\* _get_file_list (lines 44-50)
_get_file_list(listing) ==
    IF listing = "ok" THEN <<"## files\n", "a, b", "\n">>
    ELSE <<"## files\n(cannot read)\n">>

\* collect (lines 26-42): the list context_parts; os.getcwd() stands
\* outside any try, so its exception leaves collect()
context_parts(c, shell, cwd, listing, include_history, piped_input) ==
    IF cwd = "raise" THEN [raised |-> TRUE, parts |-> <<>>]
    ELSE [raised |-> FALSE,
          parts |->
            << <<"## cwd\n", "/home/u", "\n">> >>
              \o <<_get_file_list(listing)>>
              \o (IF include_history
                  THEN <<_get_history_from_file(shell, c.status, c.lines)>>
                  ELSE <<>>)
              \o (IF piped_input # <<>>
                  THEN << <<"## piped input\n">> \o piped_input
                            \o <<"\n">> >>
                  ELSE <<>>)]

\* ContextCollector(include_history).collect(), after set_piped_input
\* when there is piped input
Collect(shell, cwd, listing, include_history, piped_input) ==
    /\ LET r == context_parts(collector, shell, cwd, listing,
                              include_history, piped_input)
       IN  collector' =
             [collector EXCEPT
                !.call = "collect",
                !.shell = shell,
                !.cwd = cwd,
                !.listing = listing,
                !.include_history = include_history,
                !.piped_input = piped_input,
                !.raised = r.raised,
                !.result = r.parts]
    /\ UNCHANGED <<core_vars, tester, manager>>

NextCollect ==
    \/ \E kind \in {"command"} : HistoryAppend(kind)
    \/ HistoryUnreadable
    \/ \E shell \in Shells, cwd \in DirOutcomes, listing \in DirOutcomes,
          include_history \in BOOLEAN,
          piped_input \in {<<>>, <<"d", "d", " ", "x", "\n">>} :
         Collect(shell, cwd, listing, include_history, piped_input)

SpecCollect == Init /\ [][NextCollect]_vars

(***************************************************************************)
(* The GUI's API tester (src/gui/api_tester.py): a request thread streams  *)
(* the reply; its signals run the slots of the APITester widget.           *)
(***************************************************************************)
\* everything but the tester
outside_tester ==
    <<core_vars, collector, manager>>

\* texts typed into the message field
TesterTexts == {<<>>, <<" ", "h", "i", " ">>, <<"y", "o">>}

\* the user edits the message field (at any time, a request in flight
\* or not)
TypeMessage(text) ==
    /\ tester.message_input # text
    /\ tester' = [tester EXCEPT !.message_input = text]
    /\ UNCHANGED outside_tester

\* send_message (lines 344-372)
SendMessage ==
    /\ tester.requests < MaxRequests
    /\ tester.thread # "running"
    /\ Strip(tester.message_input) # <<>>
    /\ tester' = [tester EXCEPT
                    !.response_output = <<>>,
                    !.full_response = <<>>,
                    !.thread = "running",
                    !.thread_message = Strip(tester.message_input),
                    !.thread_response = <<>>,
                    !.failed = FALSE,
                    !.requests = @ + 1]
    /\ UNCHANGED outside_tester

\* APIStreamThread.run, one pass of its loop (lines 75-79), and the slot
\* on_chunk (lines 374-379)
ThreadChunk ==
    /\ tester.thread = "running"
    /\ ~tester.failed
    /\ Len(tester.thread_response) < 2 * MaxFragments
    /\ LET content == Fragment(Len(tester.thread_response) \div 2 + 1)
       IN  tester' = [tester EXCEPT
                        !.thread_response = @ \o content,
                        !.response_output = @ \o content]
    /\ UNCHANGED outside_tester

\* the request or the stream raises (lines 87-88) and the slot on_error
\* (lines 389-391)
ThreadError ==
    /\ tester.thread = "running"
    /\ ~tester.failed
    /\ tester' = [tester EXCEPT
                    !.failed = TRUE,
                    !.response_output = @ \o <<"\n[error] e">>]
    /\ UNCHANGED outside_tester

\* save_to_history (lines 421-445)
save_to_history(t, response) ==
    LET record == [message |-> t.message_input, response |-> response]
        history == <<record>> \o t.history
    IN  [t EXCEPT !.history =
            IF Len(history) > TesterHistoryCap
            THEN SubSeq(history, 1, TesterHistoryCap) ELSE history]

\* update_stats (lines 447-466)
update_stats(t) == [t EXCEPT !.total_calls = @ + 1]

\* on_finished (lines 393-411): it tests the widget's own _full_response
on_finished(t) ==
    IF t.full_response # <<>>
    THEN update_stats(save_to_history(t, t.full_response))
    ELSE t

\* the thread ends: finally: self.finished.emit() (lines 89-90), and the
\* slot on_finished
ThreadFinished ==
    /\ tester.thread = "running"
    /\ tester' = [on_finished(tester) EXCEPT
                    !.thread = "finished",
                    !.finished = IF tester.thread_response # <<>>
                                 THEN @ + 1 ELSE @]
    /\ UNCHANGED outside_tester

\* clear_all (lines 413-419)
ClearAll ==
    /\ tester' = [tester EXCEPT
                    !.message_input = <<>>,
                    !.response_output = <<>>,
                    !.full_response = <<>>]
    /\ tester' # tester
    /\ UNCHANGED outside_tester

NextTester ==
    \/ \E text \in TesterTexts : TypeMessage(text)
    \/ SendMessage
    \/ ThreadChunk
    \/ ThreadError
    \/ ThreadFinished
    \/ ClearAll

SpecTester == Init /\ [][NextTester]_vars

\* ------------------------------------------------------------------
\* The configuration manager of the GUI: one list of configurations
\* and the name of the default one, edited through dialogs and saved to
\* configs.json after every change.
\* ------------------------------------------------------------------

\* everything but the configuration manager
outside_manager ==
    <<core_vars, collector, tester>>

\* what the user types into the fields of the dialog
DialogNames == {<<>>, <<"a">>, <<" ", "a", " ">>, <<"b">>}
DialogKeys == {<<>>, <<"k">>}
DialogEndpoints ==
    {<<>>, <<"f", "t", "p", ":", "/", "/", "h">>,
     <<"h", "t", "t", "p", ":", "/", "/", "h">>,
     <<" ", "h", "t", "t", "p", "s", ":", "/", "/", "h">>}
DialogModels == {<<>>, <<"m">>}
DialogFields ==
    [name : DialogNames, api_key : DialogKeys,
     endpoint : DialogEndpoints, model : DialogModels]

\* ConfigDialog.get_config: <<"config", the fields stripped>>; None
\* when a required field is empty or the endpoint is neither http://
\* nor https://
get_config(fields) ==
    LET entry == [name |-> Strip(fields.name),
                   api_key |-> Strip(fields.api_key),
                   endpoint |-> Strip(fields.endpoint),
                   model |-> Strip(fields.model)]
    IN IF entry.name = <<>> THEN None
       ELSE IF entry.api_key = <<>> THEN None
       ELSE IF entry.endpoint = <<>> THEN None
       ELSE IF entry.model = <<>> THEN None
       ELSE IF ~(\/ StartsWith(entry.endpoint,
                               <<"h", "t", "t", "p", ":", "/", "/">>)
                 \/ StartsWith(entry.endpoint,
                               <<"h", "t", "t", "p", "s", ":", "/", "/">>))
            THEN None
       ELSE <<"config", entry>>

\* any(c["name"] == name for c in self.configs)
name_exists(m, name) ==
    \E i \in DOMAIN m.configs : m.configs[i].name = name

\* save_configs followed by refresh_list, as every handler ends: open()
\* raises when the directory is missing, and then the handler ends with
\* the memory changed, the file and the list widget as they were
save_and_refresh(m) ==
    IF m.data_dir
    THEN [m EXCEPT !.file = [exists |-> TRUE, configs |-> m.configs,
                             default_config |-> m.default_config],
                   !.rows = Len(m.configs)]
    ELSE m

\* add_config
add_config(m, accepted, fields) ==
    LET got == get_config(fields)
        entry == got[2]
    IN IF ~accepted THEN m
       ELSE IF got = None THEN m
       ELSE IF name_exists(m, entry.name) THEN m
       ELSE LET appended == [m EXCEPT !.configs = Append(@, entry)]
                defaulted ==
                    IF Len(appended.configs) = 1
                    THEN [appended EXCEPT !.default_config = entry.name]
                    ELSE appended
            IN save_and_refresh(defaulted)

\* faulty variant of edit_config: a rename is not checked against the
\* names of the list
edit_without_name_check(m, row, accepted, fields) ==
    LET got == get_config(fields)
        new_config == got[2]
    IN IF row < 0 \/ row >= Len(m.configs) THEN m
       ELSE IF ~accepted THEN m
       ELSE IF got = None THEN m
       ELSE LET old_name == m.configs[row + 1].name
                renamed ==
                    IF new_config.name # old_name
                       /\ m.default_config = old_name
                    THEN [m EXCEPT !.default_config = new_config.name]
                    ELSE m
            IN save_and_refresh(
                   [renamed EXCEPT !.configs[row + 1] = new_config])

\* edit_config on the row of the list widget (rows count from 0); a row
\* past the end of configs raises IndexError before the dialog opens
edit_config(m, row, accepted, fields) ==
    LET got == get_config(fields)
        new_config == got[2]
    IN IF row < 0 \/ row >= Len(m.configs) THEN m
       ELSE IF ~accepted THEN m
       ELSE IF got = None THEN m
       ELSE LET old_name == m.configs[row + 1].name
            IN IF new_config.name # old_name
                  /\ name_exists(m, new_config.name)
               THEN m
               ELSE LET renamed ==
                            IF new_config.name # old_name
                               /\ m.default_config = old_name
                            THEN [m EXCEPT
                                    !.default_config = new_config.name]
                            ELSE m
                    IN save_and_refresh(
                           [renamed EXCEPT !.configs[row + 1] = new_config])

\* self.configs.pop(row)
pop(configs, row) ==
    SubSeq(configs, 1, row) \o SubSeq(configs, row + 2, Len(configs))

\* faulty variant of delete_config: the default is left as it was
delete_keeping_default(m, row, confirmed) ==
    IF row < 0 \/ row >= Len(m.configs) THEN m
    ELSE IF ~confirmed THEN m
    ELSE save_and_refresh([m EXCEPT !.configs = pop(@, row)])

\* delete_config
delete_config(m, row, confirmed) ==
    IF row < 0 \/ row >= Len(m.configs) THEN m
    ELSE IF ~confirmed THEN m
    ELSE LET config_name == m.configs[row + 1].name
             reset == IF m.default_config = config_name
                      THEN [m EXCEPT !.default_config = None]
                      ELSE m
         IN save_and_refresh([reset EXCEPT !.configs = pop(@, row)])

\* set_default
set_default(m, row) ==
    IF row < 0 \/ row >= Len(m.configs) THEN m
    ELSE save_and_refresh(
             [m EXCEPT !.default_config = m.configs[row + 1].name])

\* the rows the user can have selected: none (-1) or an item of the
\* list widget
Rows(m) == -1 .. (m.rows - 1)

AddConfig(accepted, fields) ==
    /\ manager' = add_config(manager, accepted, fields)
    /\ manager' # manager
    /\ UNCHANGED outside_manager

EditConfig(row, accepted, fields) ==
    /\ manager' = edit_config(manager, row, accepted, fields)
    /\ manager' # manager
    /\ UNCHANGED outside_manager

DeleteConfig(row, confirmed) ==
    /\ manager' = delete_config(manager, row, confirmed)
    /\ manager' # manager
    /\ UNCHANGED outside_manager

SetDefault(row) ==
    /\ manager' = set_default(manager, row)
    /\ manager' # manager
    /\ UNCHANGED outside_manager

\* the directory of configs.json is removed with the file in it
DataDirRemoved ==
    /\ manager.data_dir
    /\ manager' = [manager EXCEPT !.data_dir = FALSE, !.file = NoConfigsFile]
    /\ UNCHANGED outside_manager

\* the directory of configs.json is made again
DataDirMade ==
    /\ ~manager.data_dir
    /\ manager' = [manager EXCEPT !.data_dir = TRUE]
    /\ UNCHANGED outside_manager

NextManager ==
    \/ \E accepted \in BOOLEAN, fields \in DialogFields :
           AddConfig(accepted, fields)
    \/ \E row \in Rows(manager), accepted \in BOOLEAN, fields \in DialogFields :
           EditConfig(row, accepted, fields)
    \/ \E row \in Rows(manager), confirmed \in BOOLEAN :
           DeleteConfig(row, confirmed)
    \/ \E row \in Rows(manager) : SetDefault(row)
    \/ DataDirRemoved
    \/ DataDirMade

SpecManager == Init /\ [][NextManager]_vars

StoreLines == {Join(words) : words \in ArgLists} \cup GuiTexts
Reasons == {ReasonCLI, ReasonGUI}

SameFirstToken ==
    {p \in StoreLines \X StoreLines :
        /\ Parts(p[1]) # <<>>
        /\ Parts(p[2]) # <<>>
        /\ Parts(p[1])[1] = Parts(p[2])[1]}

\* C9: add_trusted_command is idempotent on the name: two calls in a row
\* with lines that share their first token, whatever the arguments and the
\* reason, leave one entry for the name and add one history event; the
\* second call changes nothing.
C9_ApproveIdempotent ==
    /\ \A p \in SameFirstToken, r1 \in Reasons, r2 \in Reasons :
         LET st == StoreState
             cmd == Parts(p[1])[1]
             s1 == add_trusted_command(st, p[1], r1)
             s2 == add_trusted_command(s1, p[2], r2)
         IN  /\ s2 = s1
             /\ cmd \in s2.trusted_commands
             /\ Cardinality({i \in DOMAIN s2.file.trusted_commands :
                               s2.file.trusted_commands[i] = cmd}) = 1
             /\ s2.now - st.now
                  = IF cmd \in st.trusted_commands THEN 0 ELSE 1
             /\ Len(s2.command_history) - Len(st.command_history)
                  = IF cmd \in st.trusted_commands THEN 0 ELSE 1
    /\ (/\ Len(calls) = 2
        /\ calls[1].op = "add"
        /\ calls[2].op = "add"
        /\ calls[1].parts[1] = calls[2].parts[1]) => ~calls[2].appended

C9_Witness ==
    /\ Len(calls) = 2
    /\ calls[1].op = "add"
    /\ calls[2].op = "add"
    /\ calls[1].appended
    /\ calls[1].parts[1] = calls[2].parts[1]
    /\ calls[1].parts # calls[2].parts
    /\ Len(command_history) = 1
    /\ Cardinality(trusted_commands) = 1

\* C10: from an empty store, after any Approve, Revoke and Clear the
\* approval history is the last (at most 100) appended events in insertion
\* order; after 101 approvals of distinct names it has length 100 and lacks
\* the first approved name.
C10_HistoryKeepsLast100 ==
    /\ Len(command_history) <= HistoryCap
    /\ command_history = LastN(approval_log, HistoryCap)
    /\ trust_file.exists => trust_file.command_history = command_history
    /\ Len(approval_log) = HistoryCap + 1 =>
         /\ Len(command_history) = HistoryCap
         /\ \A i \in DOMAIN command_history :
              command_history[i].command # approval_log[1].command

C10_Witness ==
    /\ Len(approval_log) = HistoryCap + 1
    /\ Len(command_history) = HistoryCap
    /\ command_history[1] = approval_log[2]
    /\ trusted_commands = {}

(***************************************************************************)
(* C11.  Disk and memory agree after every store operation.                *)
(***************************************************************************)
\* what a process starting now would load from the trust file
Persisted == load(StoreState)

\* lines a caller may ask is_trusted about: every name handed out so far
\* and the next one, with an argument; the empty and the blank line
ProbeLines ==
    {Name(k) \o <<" ", "-", "v">> : k \in 1..(now + 1)} \cup {<<>>, <<" ">>}

\* C11: within one process, after every completed add_trusted_command,
\* remove_trusted_command and clear_trusted_commands the set and the
\* history on disk equal those in memory, and is_trusted(line) is true
\* exactly when the first token of line is in the persisted set.
C11_DiskEqualsMemory ==
    /\ Persisted.trusted_commands = trusted_commands
    /\ Persisted.command_history = command_history
    /\ \A line \in ProbeLines :
         is_trusted(StoreState, line)
           <=> /\ Parts(line) # <<>>
               /\ Parts(line)[1] \in Persisted.trusted_commands

\* two names were approved and the first was taken out again
C11_Witness ==
    /\ now = 2
    /\ trust_file.exists
    /\ trusted_commands = {Name(2)}
    /\ Range(trust_file.trusted_commands) = {Name(2)}
    /\ Len(trust_file.command_history) = 2
    /\ is_trusted(StoreState, Name(2) \o <<" ", "-", "v">>)
    /\ ~is_trusted(StoreState, Name(1))

(***************************************************************************)
(* C12.  Two processes, one file.                                          *)
(***************************************************************************)
\* C12: with the CLI and the GUI each holding its own loaded copy of the
\* trust file and approving in any interleaving, every name whose
\* approval has returned in either process, and that was not revoked or
\* cleared since, is in the set a later load of the file gives.
C12_NoApprovalLost ==
    always_approved \subseteq Persisted.trusted_commands

(***************************************************************************)
(* C13.  Loading a file that is not a well-formed document.                *)
(***************************************************************************)
\* C13: loading the trust store or the session store never fails, and it
\* yields an empty store whenever the file is absent, unreadable, not
\* valid JSON, or valid JSON of an unexpected shape such as a list.
C13_LoadNeverFails ==
    /\ pc # "crashed"
    /\ (pc \in {"store_loaded", "loaded"} /\ ~load_reads(trust_file))
         => (trusted_commands = {} /\ command_history = <<>>)
    /\ (pc = "loaded" /\ ~load_reads(session_file))
         => session_history = <<>>

(***************************************************************************)
(* C14 - C16.  The session store.                                          *)
(***************************************************************************)
Min(a, b) == IF a < b THEN a ELSE b

\* the n most recent elements of q, oldest first
MostRecent(q, n) == SubSeq(q, Len(q) - Min(Len(q), n) + 1, Len(q))

\* C14: for every log and every max_turns >= 0, get_history(max_turns)
\* is the most recent min(len(log), 2 * max_turns) stored turns, oldest
\* first, hence never more than 2 * max_turns of them.
C14_HistoryWindow ==
    session_call.op = "get_history" =>
        /\ session_call.result
             = MostRecent(session_history, 2 * session_call.max_turns)
        /\ Len(session_call.result) <= 2 * session_call.max_turns

C16_ClearEmpties ==
    session_call.cleared =>
        /\ \A n \in 0..MaxLog : get_history(SessionState, n) = <<>>
        /\ get_context_messages(SessionState) = <<>>
        /\ load_session(SessionState).history = <<>>
        /\ session_history = <<>>
        /\ session_call.op = "get_history" =>
              session_call.result = <<>> /\ session_call.context = <<>>

\* a log of two turns was cleared and the next process asked for history
C16_Witness ==
    /\ session_call.cleared
    /\ now >= 2
    /\ pc = "loaded"
    /\ session_call.op = "get_history"
    /\ session_call.max_turns = 0
    /\ session_file.exists

(***************************************************************************)
(* C17.  The session log over turns.                                       *)
(***************************************************************************)
IsPrefix(p, q) == Len(p) <= Len(q) /\ SubSeq(q, 1, Len(p)) = p

\* C17: the session log is append-only: over every step of every turn
\* (saving or piped, command or question, any reply) the log before is a
\* prefix of the log after, in memory and on disk; the one exception is
\* the explicit clear, which leaves it empty.
C17_SessionAppendOnly ==
    [][\/ /\ IsPrefix(session_history, session_history')
          /\ IsPrefix(session_file.history, session_file'.history)
       \/ /\ pc = "menu"
          /\ session_history' = <<>>
          /\ session_file'.history = <<>>]_vars

\* a piped turn ended on a log of three turns left by two saving turns
C17_Witness ==
    /\ pc = "done"
    /\ turn.dispatches = 1
    /\ ~turn.save_to_session
    /\ Len(session_history) = 3
    /\ session_file.history = session_history
    /\ turn.session0.history = session_history

(***************************************************************************)
(* C18 - C20.  The message list of a turn.                                 *)
(***************************************************************************)
\* the list was handed to the model in this turn
Dispatched == pc \in {"stream", "done"} /\ turn.dispatches = 1

\* the messages of the list that are not system messages
Conversation == SelectSeq(messages, LAMBDA m : m.role # "system")

\* C18: in every turn, saving or piped, and whatever the session log
\* held before (a log ending in a user turn included), the last message
\* dispatched is a user message whose content is the current input, and
\* the turn put that input into the list exactly once.
C18_LastIsCurrentInput ==
    Dispatched =>
        /\ messages # <<>>
        /\ messages[Len(messages)] = UserMessage(turn.message)
        /\ Len(Conversation)
             = Min(Len(turn.session0.history) + 1, 2 * DefaultMaxTurns)

IsContext(m) ==
    /\ m.role = "system"
    /\ m.content # <<>>
    /\ m.content[1] = "context:\n"

\* stored turns as the model is given them: role and content
Stored(h) ==
    [i \in 1..Len(h) |-> [role |-> h[i].role, content |-> h[i].content]]

\* the recent-message window ending with the current user turn: in a
\* saving turn the input is the last stored turn, in a piped turn it
\* follows the stored ones
WindowWithInput ==
    IF turn.save_to_session
    THEN LastN(Stored(turn.session0.history)
                 \o <<UserMessage(turn.message)>>, 2 * DefaultMaxTurns)
    ELSE LastN(Stored(turn.session0.history), 2 * DefaultMaxTurns)
           \o <<UserMessage(turn.message)>>

\* C19: the list dispatched in a turn is, in this order, the
\* command-result system message (there if and only if a command was
\* executed in this turn), the context system message, then the recent
\* window of the session store in stored order ending with the current
\* user turn; no system message follows a non-system message.
C19_MessageOrder ==
    Dispatched =>
        LET k == IF turn.executions = 1 THEN 2 ELSE 1
        IN  /\ Len(messages) > k
            /\ turn.executions = 1 =>
                  IsCommandResult(messages[1]) /\ IsContext(messages[2])
            /\ turn.executions = 0 => IsContext(messages[1])
            /\ \A i \in DOMAIN messages :
                  /\ IsCommandResult(messages[i])
                       => (i = 1 /\ turn.executions = 1)
                  /\ i > k => messages[i].role # "system"
            /\ SubSeq(messages, k + 1, Len(messages)) = WindowWithInput

\* C20: in a saving turn the current input is appended to the session
\* log and written to disk before the list is built and before the model
\* is called: while the model is being called the last stored turn is
\* the current input, and it stays stored when the reply is empty.
C20_InputStoredBeforeDispatch ==
    (Dispatched /\ turn.save_to_session) =>
        LET n == Len(turn.session0.history) + 1
            disk == load_session(SessionState).history
        IN  /\ Len(disk) >= n
            /\ disk[n].role = "user"
            /\ disk[n].content = turn.message
            /\ SubSeq(disk, 1, n - 1) = turn.session0.history
            /\ session_history = disk
            /\ (pc = "stream" \/ turn.response = <<>>) => Len(disk) = n
            /\ turn.response # <<>> =>
                  /\ Len(disk) = n + 1
                  /\ disk[n + 1].role = "assistant"
                  /\ disk[n].timestamp < disk[n + 1].timestamp
            /\ Conversation[Len(Conversation)] = UserMessage(turn.message)

\* a saving turn ran a command and the model returned nothing
C20_Witness ==
    /\ pc = "done"
    /\ turn.save_to_session
    /\ turn.executions = 1
    /\ turn.dispatches = 1
    /\ turn.response = <<>>
    /\ Len(turn.session0.history) = 2
    /\ Len(session_file.history) = 3
    /\ session_file.history[3].content = turn.message

(***************************************************************************)
(* C21.  Piped turns and the session log.                                  *)
(***************************************************************************)
\* run() took the piped input as the turn (ai_cli.py:301-305)
PipedTurn == InTurn /\ turn.piped_input # <<>>

\* C21: a piped turn leaves the session log as it was, in memory and on
\* disk, from its start to its end, whatever the classification of the
\* text, the answer at the prompt and the reply: neither the user text
\* nor the reply is appended.
C21_PipedTurnLeavesLog ==
    PipedTurn =>
        /\ SessionNow = turn.session0
        /\ \A i \in DOMAIN session_file.history :
              session_file.history[i].content # turn.message

\* a piped turn ended with a reply, on a log that held two turns
C21_Witness ==
    /\ PipedTurn
    /\ pc = "done"
    /\ turn.dispatches = 1
    /\ turn.response # <<>>
    /\ Len(session_history) = 2
    /\ session_file.history = session_history

(***************************************************************************)
(* C22, C23.  The stream, fragment by fragment.                            *)
(***************************************************************************)
RECURSIVE Concat(_)
\* the fragments of q put together, in order
Concat(q) == IF q = <<>> THEN <<>> ELSE Head(q) \o Concat(Tail(q))

\* the log of a saving turn once the user turn is in
WithUserTurn ==
    Stored(turn.session0.history) \o <<UserMessage(turn.message)>>

\* C22: in a saving turn no assistant turn is in the log while the stream
\* is being read; once it has ended the log holds exactly one more turn,
\* the assistant's, if and only if the reply is non-empty, and its content
\* is the fragments in arrival order; at every moment the fragments
\* written to the output are those aggregated so far.
C22_OneAssistantTurnAfterStream ==
    (turn.save_to_session /\ turn.dispatches = 1) =>
        /\ turn.response = Concat(terminal.output)
        /\ pc \in {"stream", "drained"} =>
              Stored(session_history) = WithUserTurn
        /\ pc = "done" =>
              /\ Stored(session_history)
                   = WithUserTurn
                       \o (IF terminal.output # <<>>
                           THEN <<[role |-> "assistant",
                                   content |-> Concat(terminal.output)]>>
                           ELSE <<>>)
              /\ session_file.history = session_history

\* a saving turn ended after two fragments, both in the stored reply
C22_Witness ==
    /\ turn.save_to_session
    /\ pc = "done"
    /\ ~terminal.api_failed
    /\ terminal.output = <<Fragment(1), Fragment(2)>>
    /\ session_history[Len(session_history)].role = "assistant"
    /\ session_history[Len(session_history)].content
         = Fragment(1) \o Fragment(2)

\* the fragments delivered before the last one
Delivered == SubSeq(terminal.output, 1, Len(terminal.output) - 1)

\* C23: when the model call fails, before the first fragment or after
\* some, nothing is raised: the marker is the last fragment of the stream
\* and the only marker in it, the reply is the delivered fragments then
\* the marker, the turn runs to its normal end, and a saving turn stores
\* that reply as its assistant turn.
C23_FailureEndsWithMarker ==
    terminal.api_failed =>
        /\ pc \in {"drained", "done"}
        /\ terminal.output # <<>>
        /\ terminal.output[Len(terminal.output)] = ErrorMarker
        /\ \A i \in DOMAIN Delivered : Delivered[i] # ErrorMarker
        /\ turn.response = Concat(Delivered) \o ErrorMarker
        /\ (pc = "done" /\ turn.save_to_session) =>
              /\ session_history # <<>>
              /\ Stored(session_history)[Len(session_history)]
                   = [role |-> "assistant",
                      content |-> Concat(Delivered) \o ErrorMarker]
              /\ session_file.history = session_history

\* the call failed after one fragment, in a saving turn that then ended
C23_Witness ==
    /\ terminal.api_failed
    /\ pc = "done"
    /\ turn.save_to_session
    /\ Delivered = <<Fragment(1)>>
    /\ session_history[Len(session_history)].content
         = Fragment(1) \o ErrorMarker

(***************************************************************************)
(* C24, C25.  The outcome of an execution.                                 *)
(***************************************************************************)
\* _execute_command was called in this turn
Executed == InTurn /\ turn.executions = 1

\* the chunk that follows the header in the command-result message
SectionAfter(header) ==
    LET c == messages[1].content
        at == {i \in 1..(Len(c) - 1) : c[i] = header}
    IN  {c[i + 1] : i \in at}

\* C24: when the budget of the execution runs out, _execute_command
\* returns (False, the timeout message) and nothing is raised; the turn
\* goes on to dispatch a list whose first message is the command-result
\* system message, with the timeout message as its output section.
C24_TimeoutIsForwarded ==
    (Executed /\ turn.outcome = "timeout") =>
        /\ turn.result = [success |-> FALSE,
                          output |-> <<"command timed out">>]
        /\ pc \in {"stream", "done"}
        /\ turn.dispatches = 1
        /\ IsCommandResult(messages[1])
        /\ SectionAfter("\n\n## output\n") = {"command timed out"}

\* a turn whose command timed out was answered by the model
C24_Witness ==
    /\ Executed
    /\ turn.outcome = "timeout"
    /\ pc = "done"
    /\ turn.response # <<>>

\* C25: for every way an execution ends _execute_command returns a pair
\* and raises nothing, succeeded is true exactly when the exit status of
\* the shell is 0, and the status section of the command-result message
\* reads "succeeded" exactly when succeeded is true and "failed" otherwise.
C25_SucceededIffExitZero ==
    Executed =>
        /\ pc \in {"stream", "done"}
        /\ turn.result.success <=> (returncode(turn.outcome) = "0")
        /\ SectionAfter("\n\n## status\n")
             = {IF turn.result.success THEN "succeeded" ELSE "failed"}

(***************************************************************************)
(* C26.  Which piped texts make a piped turn.                              *)
(***************************************************************************)
\* run() went to _single_mode(piped_input, save_to_session=False)
TookPipedBranch ==
    /\ turn.piped_input = terminal.stdin
    /\ turn.message = terminal.stdin
    /\ ~turn.save_to_session

\* run() went on to the arguments: a saving turn on the joined words, or,
\* without words, the menu (on a terminal) or the usage text
FellThrough ==
    /\ turn.piped_input = <<>>
    /\ IF terminal.args # <<>>
       THEN turn.message = Join(terminal.args) /\ turn.save_to_session
       ELSE turn = NoTurn /\ pc \in {"menu", "done"}

\* C26, as first stated: the text read from standard input makes a piped
\* turn if and only if its length is greater than 10.
C26_PipedIffLongerThan10 ==
    pc # "stopped" =>
        IF Len(terminal.stdin) > PipedMinLen
        THEN TookPipedBranch ELSE FellThrough

\* C26, amended: the text read from standard input makes a piped,
\* non-saving turn if and only if its length after strip() is greater
\* than 10; every other text falls through to the argument and menu
\* handling.
C26_PipedIffStrippedLongerThan10 ==
    pc # "stopped" =>
        IF Len(Strip(terminal.stdin)) > PipedMinLen
        THEN TookPipedBranch ELSE FellThrough

\* a text of 11 characters, 10 of them after strip(), fell through to the
\* words of the command line
C26_Witness ==
    /\ Len(terminal.stdin) = PipedMinLen + 1
    /\ Len(Strip(terminal.stdin)) = PipedMinLen
    /\ FellThrough
    /\ terminal.args # <<>>
    /\ pc = "done"

(***************************************************************************)
(* C27.  Classification in both modes.                                     *)
(***************************************************************************)
\* C27: every line dispatched as a turn, in the interactive mode as in
\* the single-shot mode, was classified first: if its first token was
\* pre-approved when the turn began the line was executed and the
\* command-result message heads the dispatched list, and if not, and the
\* line has a first token, that token was probed and a successful probe
\* brought the escalation prompt.
C27_ClassifiedInBothModes ==
    (turn.dispatches = 1 /\ pc # "crashed") =>
        /\ turn.safe # "unset"
        /\ IF _is_safe_command(turn.store0, turn.message)
           THEN /\ turn.executions = 1
                /\ IsCommandResult(messages[1])
           ELSE Parts(turn.message) # <<>> =>
                   /\ turn.probe # "unset"
                   /\ turn.probe = "exit0" => turn.prompts = 1

(***************************************************************************)
(* C28.  SIGINT at a prompt.                                               *)
(***************************************************************************)
\* C28: after an interrupt at the main-menu prompt, at the prompt of the
\* interactive mode or at the escalation prompt the process has not ended
\* on an unhandled exception, and the session log and the trust store in
\* memory equal what is on disk.
C28_InterruptIsGraceful ==
    terminal.signal = "interrupt" =>
        /\ pc # "crashed"
        /\ session_file.history = session_history
        /\ Persisted.trusted_commands = trusted_commands
        /\ Persisted.command_history = command_history

(***************************************************************************)
(* C29.  What the session log holds.                                       *)
(***************************************************************************)
\* the lines that can be submitted as a saving turn: the joined words of
\* a command line
InputLines == {Join(words) : words \in ArgLists}

\* C29: starting from an empty log, after any sequence of turns every
\* stored turn, in memory and on disk, has role user or assistant; a user
\* turn's content is an input line and an assistant turn's content is an
\* aggregated reply; no system message, command output or context text
\* is in the log.
C29_OnlyConversationStored ==
    \A h \in {session_history, session_file.history} :
        \A i \in DOMAIN h :
            /\ h[i].role \in {"user", "assistant"}
            /\ h[i].role = "user" => h[i].content \in InputLines
            /\ h[i].role = "assistant" => h[i].content \in Replies \ {<<>>}

\* a saving turn executed its command, dispatched the command-result and
\* context messages, and stored the input line and the reply
C29_Witness ==
    /\ pc = "done"
    /\ turn.save_to_session
    /\ turn.executions = 1
    /\ IsCommandResult(messages[1])
    /\ IsContext(messages[2])
    /\ Len(session_history) >= 2
    /\ session_history[Len(session_history)].role = "assistant"
    /\ session_file.history = session_history

(***************************************************************************)
(* C30.  The precedence of the configuration sources.                      *)
(***************************************************************************)
\* what the setting would be with the GUI's default first, then the .env
\* file, then the environment variable
GuiThenFileThenEnv(s) ==
    LET src == config.sources
    IN  IF src.gui.exists THEN src.gui.value[s]
        ELSE IF src.env_file[s] # None THEN src.env_file[s]
        ELSE IF src.env[s] # None THEN src.env[s]
        ELSE Default(s)

\* C30: for each of the five settings Config holds the value of the
\* GUI's default configuration when there is one, otherwise the value of
\* the .env file, otherwise the environment variable: a value configured
\* in the GUI is never overridden by the environment or the .env file.
C30_GuiValueWins ==
    config.built =>
        \A s \in Settings :
            config.value[s] = converted(s, GuiThenFileThenEnv(s))

(***************************************************************************)
(* C31.  The shell-history section.                                        *)
(***************************************************************************)
\* a line of the file, trimmed, that the section may list
Qualifies(l) ==
    /\ l # <<>>
    /\ Head(l) # "#"
    /\ l # <<"a", "i">>
    /\ ~(Len(l) >= 3 /\ SubSeq(l, 1, 3) = <<"a", "i", " ">>)

\* the trimmed qualifying lines of the file, in file order
QualifyingLines ==
    SelectSeq([j \in 1..Len(collector.lines) |-> Strip(collector.lines[j])],
              Qualifies)

\* the lines the section lists: what stands between its header and its
\* closing note, split at the line breaks
ListedLines ==
    LET r == collector.result
    IN  SplitOn(SubSeq(r, 2, Len(r) - 1), "\n", <<>>, <<>>)

\* C31: the shell-history section lists exactly the last (at most 10)
\* lines of the history file that are non-empty after trimming, do not
\* start with '#' and are neither 'ai' nor start with 'ai ', in file
\* order; when the shell has no known history file, the file is missing
\* or cannot be read, or no line qualifies, the section is a placeholder.
C31_LastQualifyingLines ==
    collector.call = "history" =>
        IF /\ history_file(collector.shell) # "None"
           /\ collector.status = "readable"
           /\ QualifyingLines # <<>>
        THEN /\ collector.result[1] = "## recent shell commands\n"
             /\ ListedLines = MostRecent(QualifyingLines, HistoryLimit)
        ELSE collector.result \in {NoHistory, NoValidCommands, HistoryUnread}

\* the file holds eleven qualifying lines and an 'ai' line among the last
\* ten; the section lists ten lines, the 'ai' line not among them
C31_Witness ==
    /\ collector.call = "history"
    /\ Len(QualifyingLines) = HistoryLimit + 1
    /\ Len(collector.lines) = HistoryLimit + 2
    /\ \E j \in 3..Len(collector.lines) :
          Strip(collector.lines[j]) = <<"a", "i">>
    /\ Len(ListedLines) = HistoryLimit
    /\ ListedLines[1] = QualifyingLines[2]

(***************************************************************************)
(* C32.  collect() is best effort.                                         *)
(***************************************************************************)
\* the first chunk of each section collect() returned
Headers == [i \in 1..Len(collector.result) |-> collector.result[i][1]]

\* section headers, placeholders included
HistoryHeaders ==
    {"## recent shell commands\n", NoHistory[1], NoValidCommands[1],
     HistoryUnread[1]}

\* C32: collect() always returns, and returns a non-empty text; its
\* sections are, in this order, the working directory, the directory
\* listing, the shell history if and only if it is enabled, the piped
\* input if and only if it is set; a section that cannot be produced is
\* replaced by its placeholder and the collection goes on.
C32_CollectIsBestEffort ==
    collector.call = "collect" =>
        /\ ~collector.raised
        /\ JoinLines(collector.result) # <<>>
        /\ Len(Headers)
             = 2 + (IF collector.include_history THEN 1 ELSE 0)
                 + (IF collector.piped_input # <<>> THEN 1 ELSE 0)
        /\ Headers[1] = "## cwd\n"
        /\ Headers[2] \in {"## files\n", "## files\n(cannot read)\n"}
        /\ collector.listing = "raise"
             => Headers[2] = "## files\n(cannot read)\n"
        /\ collector.include_history => Headers[3] \in HistoryHeaders
        /\ collector.piped_input # <<>>
             => Headers[Len(Headers)] = "## piped input\n"

(***************************************************************************)
(* C33.  What the API tester records.                                      *)
(***************************************************************************)
\* C33: every request whose thread finished after streaming a non-empty
\* reply was recorded once: the history holds one record per such
\* request, the newest at the head with the full reply of the request,
\* and the statistics count one call per such request; a request whose
\* reply was empty left no record.
C33_FinishedRequestIsRecorded ==
    /\ Len(tester.history) = tester.finished
    /\ tester.total_calls = tester.finished
    /\ (tester.thread = "finished" /\ tester.thread_response # <<>>) =>
          /\ tester.history # <<>>
          /\ tester.history[1].response = tester.thread_response

(***************************************************************************)
(* C34.  What a pre-approved line runs.                                    *)
(***************************************************************************)
\* C34: when a line is executed without a prompt, its first token being
\* in SAFE_COMMANDS or in the trusted set, every program the shell runs
\* for that line is in SAFE_COMMANDS or in the trusted set, also when the
\* line chains further commands after the first one.
C34_PreApprovedLineRunsOnlyApproved ==
    (turn.safe = "yes" /\ turn.executions = 1) =>
        \A i \in DOMAIN turn.ran :
            turn.ran[i].via = "execute" =>
                /\ turn.ran[i].argv # <<>>
                /\ turn.ran[i].argv[1]
                     \in SAFE_COMMANDS \cup turn.store0.trusted_commands

(***************************************************************************)
(* C35.  The alternation of the stored turns.                              *)
(***************************************************************************)
\* the roles of a log, in stored order
Roles(h) == [i \in 1..Len(h) |-> h[i].role]

\* C35: from an empty log, after any sequence of turns and clears, in
\* memory and on disk every assistant turn stands right after a user
\* turn (so no two assistant turns are adjacent); a saving turn that has
\* ended left its input as a user turn followed, exactly when the reply
\* was non-empty, by the reply as an assistant turn, so that a user turn
\* is followed by another user turn only when its reply was empty or its
\* turn did not reach its end.
C35_AssistantFollowsItsUser ==
    /\ \A h \in {session_history, session_file.history} :
          \A i \in DOMAIN h :
              h[i].role = "assistant" =>
                  i > 1 /\ h[i - 1].role = "user"
    /\ (InTurn /\ turn.save_to_session /\ pc = "done") =>
          Stored(session_history)
            = Stored(turn.session0.history)
                \o <<UserMessage(turn.message)>>
                \o (IF turn.response # <<>>
                    THEN <<[role |-> "assistant",
                            content |-> turn.response]>>
                    ELSE <<>>)

\* a turn whose reply was empty, then a turn that was answered: two user
\* turns side by side, then the assistant turn
C35_Witness ==
    /\ pc = "done"
    /\ turn.response # <<>>
    /\ Roles(session_history) = <<"user", "user", "assistant">>
    /\ session_history[3].content = turn.response
    /\ session_history[2].content = turn.message

(***************************************************************************)
(* C36.  The frame of Revoke and Clear.                                    *)
(***************************************************************************)
\* C36: remove_trusted_command(line) takes exactly the first token of
\* line out of the trusted set, and clear_trusted_commands empties the
\* set; both leave the approval history as it was; removing a name that
\* is not trusted (or a blank line) changes nothing in memory and writes
\* nothing; approving a name that is not trusted appends one event, also
\* when earlier events of that name are in the history.
C36_RevokeAndClearFrame ==
    [][/\ \A line \in RevokeLines :
            StoreRevoke(line) =>
                LET parts == Parts(line)
                    trusted == parts # <<>> /\ parts[1] \in trusted_commands
                IN  /\ command_history' = command_history
                    /\ trusted_commands'
                         = IF trusted THEN trusted_commands \ {parts[1]}
                           ELSE trusted_commands
                    /\ ~trusted => trust_file' = trust_file
                    /\ trusted =>
                         Range(trust_file'.trusted_commands)
                           = trusted_commands'
       /\ StoreClear =>
            /\ trusted_commands' = {}
            /\ command_history' = command_history
            /\ trust_file'.exists
            /\ trust_file'.trusted_commands = <<>>
       /\ \A line \in RevokeLines :
            (StoreApprove(line) /\ Parts(line) # <<>>
               /\ Parts(line)[1] \notin trusted_commands) =>
                /\ Len(command_history') = Len(command_history) + 1
                /\ command_history'[Len(command_history')].command
                     = Parts(line)[1]
      ]_vars

\* a name was approved, revoked and approved again: it is trusted and
\* the history holds two events of it; the file has been deleted since
\* the last write
C36_Witness ==
    /\ <<"d", "d">> \in trusted_commands
    /\ Len(SelectSeq(command_history,
                     LAMBDA e : e.command = <<"d", "d">>)) = 2
    /\ trust_file = NoFile


\* the names of a list of configurations are pairwise different
DistinctNames(configs) ==
    \A i, j \in DOMAIN configs :
        configs[i].name = configs[j].name => i = j

\* C37: in the configuration manager, after any sequence of add, edit,
\* delete and set-default operations from an empty list, no two
\* configurations have the same name, in the list and in configs.json.
C37_NamesAreUnique ==
    /\ DistinctNames(manager.configs)
    /\ DistinctNames(manager.file.configs)

\* two configurations are listed and saved, "b" before "a", and "a" is
\* the default: more than additions has acted, since an addition makes
\* only the first configuration of the list the default
C37_Witness ==
    /\ Len(manager.configs) = 2
    /\ manager.configs[1].name = <<"b">>
    /\ manager.configs[2].name = <<"a">>
    /\ manager.default_config = <<"a">>
    /\ manager.file.exists
    /\ manager.file.configs = manager.configs

\* the default names nothing or a configuration of the list
DefaultIsListed(configs, default_config) ==
    \/ default_config = None
    \/ \E i \in DOMAIN configs : configs[i].name = default_config

\* C38: in the configuration manager default_config is None or the name
\* of a configuration of the list, in memory and in configs.json; an
\* edit that renames the default configuration makes the new name the
\* default, and deleting the default configuration leaves the default
\* None, no other configuration taking its place.
C38_DefaultIsListedOrNone ==
    /\ [](/\ DefaultIsListed(manager.configs, manager.default_config)
          /\ DefaultIsListed(manager.file.configs,
                             manager.file.default_config))
    /\ [][/\ \A row \in Rows(manager), accepted \in BOOLEAN,
                fields \in DialogFields :
                  (/\ EditConfig(row, accepted, fields)
                   /\ row + 1 \in DOMAIN manager.configs
                   /\ manager.configs[row + 1].name = manager.default_config
                   /\ Len(manager'.configs) = Len(manager.configs))
                  => manager'.default_config = manager'.configs[row + 1].name
          /\ \A row \in Rows(manager), confirmed \in BOOLEAN :
                  (/\ DeleteConfig(row, confirmed)
                   /\ row + 1 \in DOMAIN manager.configs
                   /\ manager.configs[row + 1].name = manager.default_config)
                  => manager'.default_config = None]_vars

\* a configuration is listed and none is the default, in memory and in
\* configs.json: the default configuration was deleted and another one
\* was left
C38_Witness ==
    /\ Len(manager.configs) >= 1
    /\ manager.default_config = None
    /\ manager.file.exists
    /\ manager.file.configs = manager.configs
    /\ manager.file.default_config = None

====
